---------------------------- MODULE Spec2Model ----------------------------
(***************************************************************************)
(* AccountPro (src/app.py): a Flask application that keeps a list of       *)
(* account dicts and a counter for the next id in module globals, and      *)
(* serves a dashboard and create, edit and delete requests on them.        *)
(*                                                                         *)
(* app.run() serves every request in a thread of its own, and no handler   *)
(* takes a lock.  A handler is therefore modelled statement by statement:  *)
(* one action for each statement that reads or writes the globals, with    *)
(* the statements on locals that follow it.  A loop over the list (a       *)
(* generator expression, a list comprehension, sum) is one action for      *)
(* each element it fetches and one for its end: another thread can run     *)
(* between two elements.  The calls that CPython completes without giving  *)
(* up the interpreter (len, sorted on a copy of the list, list.append,     *)
(* list.remove, dict.update) are one action each.                          *)
(*                                                                         *)
(* The repository pins no interpreter.  sum() over floats adds from left   *)
(* to right up to CPython 3.11 and keeps a compensation term from 3.12;    *)
(* which of the two the run has is fixed at the start.                     *)
(***************************************************************************)
EXTENDS Integers, Sequences, FiniteSets, TLC

VARIABLES
    heap,       \* the account dicts alive, by object identity
    accounts,   \* the global list: the identities of its dicts, in order
    next_id,    \* the global counter
    assigned,   \* history: every id an account of the list has ever had
    today,      \* the clock: the day of the run
    threads,    \* per server thread: the request served, the position in
                \* its handler, the handler's locals, the response
    compensated \* the interpreter's sum() is the compensated one

vars == <<heap, accounts, next_id, assigned, today, threads, compensated>>

(***************************************************************************)
(* Evaluation.  Python computes a value once and then uses it under a      *)
(* name, and it loops; With and Fold say the same.                         *)
(***************************************************************************)
\* Body of the value
With(value, Body(_)) == CHOOSE r \in {Body(v) : v \in {value}} : TRUE

\* Step(... Step(Step(acc, lo), lo + 1) ..., hi): the range is halved so
\* that the evaluation nests no deeper than the logarithm of its length
RECURSIVE Fold(_, _, _, _)
Fold(Step(_, _), lo, hi, acc) ==
    IF lo > hi THEN acc
    ELSE IF lo = hi THEN Step(acc, lo)
    ELSE With(Fold(Step, lo, (lo + hi) \div 2, acc),
              LAMBDA left : Fold(Step, ((lo + hi) \div 2) + 1, hi, left))

\* Digit(i, carry) is <<digit i, the carry out of it>>; the digits lo..hi
\* and the last carry, as <<digits, carry>>
Chain(Digit(_, _), lo, hi, carry) ==
    Fold(LAMBDA acc, i : With(Digit(i, acc[2]),
                              LAMBDA d : <<Append(acc[1], d[1]), d[2]>>),
         lo, hi, <<<<>>, carry>>)

Max(a, b) == IF a > b THEN a ELSE b

(***************************************************************************)
(* Natural numbers of any size: TLC's integers are 32 bits wide and a      *)
(* double carries 53.  A number is the sequence of its digits in base      *)
(* 2^15, least significant first, without leading zero digits.             *)
(***************************************************************************)
Base == 32768

\* a without its leading zero digits
BNorm(a) ==
    SubSeq(a, 1, IF \A i \in DOMAIN a : a[i] = 0 THEN 0
                 ELSE CHOOSE i \in DOMAIN a :
                          a[i] # 0 /\ \A j \in (i + 1)..Len(a) : a[j] = 0)

\* the number of an integer of TLC
BFromNat(n) == BNorm(<<n % Base, (n \div Base) % Base, n \div (Base * Base)>>)

BDigit(a, i) == IF i <= Len(a) THEN a[i] ELSE 0

WithCarry(r) == IF r[2] = 0 THEN r[1] ELSE Append(r[1], r[2])

BAdd(a, b) ==
    WithCarry(Chain(LAMBDA i, carry :
                        <<(BDigit(a, i) + BDigit(b, i) + carry) % Base,
                          (BDigit(a, i) + BDigit(b, i) + carry) \div Base>>,
                    1, Max(Len(a), Len(b)), 0))

\* a - b for a >= b
BSub(a, b) ==
    BNorm(Chain(LAMBDA i, borrow :
                    <<(a[i] - BDigit(b, i) - borrow) % Base,
                      IF a[i] - BDigit(b, i) - borrow < 0 THEN 1 ELSE 0>>,
                1, Len(a), 0)[1])

\* -1, 0, 1 as a < b, a = b, a > b
BCmp(a, b) ==
    IF Len(a) # Len(b) THEN (IF Len(a) < Len(b) THEN -1 ELSE 1)
    ELSE IF a = b THEN 0
    ELSE With(CHOOSE i \in DOMAIN a :
                  a[i] # b[i] /\ \A j \in (i + 1)..Len(a) : a[j] = b[j],
              LAMBDA i : IF a[i] < b[i] THEN -1 ELSE 1)

\* a * k + carry for 0 <= k < Base and 0 <= carry < Base
BMulAdd(a, k, carry) ==
    WithCarry(Chain(LAMBDA i, c : <<(a[i] * k + c) % Base, (a[i] * k + c) \div Base>>,
                    1, Len(a), carry))

BMulSmall(a, k) == IF k = 0 THEN <<>> ELSE BMulAdd(a, k, 0)

\* <<a \div k, a % k>> for 0 < k < Base: long division from the most
\* significant digit down
BDivSmall(a, k) ==
    With(Chain(LAMBDA i, rem : <<(rem * Base + a[Len(a) + 1 - i]) \div k,
                                 (rem * Base + a[Len(a) + 1 - i]) % k>>,
               1, Len(a), 0),
         LAMBDA r : <<BNorm([i \in DOMAIN a |-> r[1][Len(a) + 1 - i]]), r[2]>>)

Zeros(n) == [i \in 1..n |-> 0]

\* a * 2^s and a \div 2^s
BShl(a, s) ==
    IF a = <<>> THEN <<>>
    ELSE Zeros(s \div 15) \o BMulSmall(a, 2^(s % 15))

BShr(a, s) ==
    IF s \div 15 >= Len(a) THEN <<>>
    ELSE BDivSmall(SubSeq(a, (s \div 15) + 1, Len(a)), 2^(s % 15))[1]

\* the number of bits of a digit
BitLen(n) == Cardinality({j \in 0..14 : 2^j <= n})

BBitLen(a) == IF a = <<>> THEN 0 ELSE 15 * (Len(a) - 1) + BitLen(a[Len(a)])

\* bit i of a, bit 0 the least significant
BBit(a, i) == (BDigit(a, (i \div 15) + 1) \div 2^(i % 15)) % 2

\* some bit among the lowest d bits of a is set
BLowBits(a, d) ==
    \/ \E i \in 1..(d \div 15) : BDigit(a, i) # 0
    \/ BDigit(a, (d \div 15) + 1) % 2^(d % 15) # 0

\* the number of zero bits below the lowest set bit of a # 0
BTrailingZeros(a) ==
    With(CHOOSE i \in DOMAIN a : a[i] # 0 /\ \A j \in 1..(i - 1) : a[j] = 0,
         LAMBDA i : 15 * (i - 1) + Cardinality({j \in 1..14 : a[i] % 2^j = 0}))

\* a * 5^k: k \div 6 times by 5^6, then k % 6 times by 5
BMulPow5(a, k) ==
    Fold(LAMBDA acc, i : BMulSmall(acc, IF i <= k \div 6 THEN 15625 ELSE 5),
         1, (k \div 6) + (k % 6), a)

\* <<a \div 5^k, whether a remainder was left>>: one division by 5^k is a
\* chain of divisions by 5^6 and by 5
BDivPow5(a, k, sticky) ==
    Fold(LAMBDA acc, i :
             With(BDivSmall(acc[1], IF i <= k \div 6 THEN 15625 ELSE 5),
                  LAMBDA d : <<d[1], acc[2] \/ d[2] # 0>>),
         1, (k \div 6) + (k % 6), <<a, sticky>>)

(***************************************************************************)
(* IEEE 754 binary64.  A finite double is (-1)^neg * m * 2^e with m odd,   *)
(* or m = <<>> (zero, e = 0); m is a number as above.                      *)
(***************************************************************************)
NaN == [kind |-> "nan"]

Inf(neg) == [kind |-> "inf", neg |-> neg]

Zero(neg) == [kind |-> "fin", neg |-> neg, m |-> <<>>, e |-> 0]

\* m * 2^e, exactly representable, in the form above
Finite(neg, m, e) ==
    IF m = <<>> THEN Zero(neg)
    ELSE With(BTrailingZeros(m),
              LAMBDA z : [kind |-> "fin", neg |-> neg, m |-> BShr(m, z), e |-> e + z])

\* the integer nearest to (n + f) / 2^d for d > 0, ties to even, where
\* 0 <= f < 1 and f > 0 iff sticky
RoundShift(n, d, sticky) ==
    With(BShr(n, d),
         LAMBDA kept :
             IF /\ BBit(n, d - 1) = 1
                /\ (sticky \/ BLowBits(n, d - 1) \/ BBit(kept, 0) = 1)
             THEN BAdd(kept, <<1>>)
             ELSE kept)

\* m * 2^ulp for a number m of 53 bits at most; beyond the largest double
\* it is infinite
Rounded(neg, m, ulp) ==
    IF BBitLen(m) + ulp > 1024 THEN Inf(neg) ELSE Finite(neg, m, ulp)

\* the double nearest to (n + f) * 2^e, ties to even, where 0 <= f < 1 and
\* f > 0 iff sticky; sticky only with n >= 2^54.  ulp is the weight of the
\* last bit a double of this size keeps.
RoundToDouble(neg, n, e, sticky) ==
    IF n = <<>> THEN Zero(neg)
    ELSE With(Max(e + BBitLen(n) - 53, -1074),
              LAMBDA ulp :
                  IF ulp <= e THEN Rounded(neg, n, e)
                  ELSE Rounded(neg, RoundShift(n, ulp - e, sticky), ulp))

\* the double nearest to (n / d) * 2^e for a number n and 0 < d < Base
RoundQuotient(neg, n, d, e) ==
    IF n = <<>> THEN Zero(neg)
    ELSE With(Max(0, 70 - BBitLen(n)),
              LAMBDA s : With(BDivSmall(BShl(n, s), d),
                              LAMBDA qr : RoundToDouble(neg, qr[1], e - s,
                                                        qr[2] # 0)))

\* n * 10^k as <<number, binary exponent, sticky>>: the value is
\* (number + f) * 2^exponent, 0 <= f < 1 and f > 0 iff sticky
ScaleDecimal(n, k) ==
    IF k >= 0 THEN <<BMulPow5(n, k), k, FALSE>>
    ELSE With(Max(0, 55 + 3 * (-k) - BBitLen(n)),
              LAMBDA s : With(BDivPow5(BShl(n, s), -k, FALSE),
                              LAMBDA qr : <<qr[1], k - s, qr[2]>>))

\* the double nearest to n * 10^k for a number n of len decimal digits;
\* from 10^310 on every value is infinite, below 10^-330 zero
DecimalToDouble(neg, n, len, k) ==
    IF n = <<>> THEN Zero(neg)
    ELSE IF len + k > 310 THEN Inf(neg)
    ELSE IF len + k < -330 THEN Zero(neg)
    ELSE With(ScaleDecimal(n, k),
              LAMBDA v : IF v[1] = <<>> THEN Zero(neg)
                         ELSE RoundToDouble(neg, v[1], v[2], v[3]))

\* x < 0 and x > 1000000 on doubles
LessThanZero(x) ==
    CASE x.kind = "fin" -> x.neg /\ x.m # <<>>
      [] x.kind = "inf" -> x.neg
      [] x.kind = "nan" -> FALSE

\* m * 2^e compared with a number n: -1, 0, 1
CmpWithNat(x, n) ==
    IF x.e >= 0
    THEN IF BBitLen(x.m) + x.e > BBitLen(n) THEN 1
         ELSE BCmp(BShl(x.m, x.e), n)
    ELSE IF BBitLen(x.m) + x.e < BBitLen(n) THEN -1
         ELSE BCmp(x.m, BShl(n, -x.e))

Million == BFromNat(1000000)

GreaterThanMillion(x) ==
    CASE x.kind = "fin" -> ~x.neg /\ x.m # <<>> /\ CmpWithNat(x, Million) > 0
      [] x.kind = "inf" -> ~x.neg
      [] x.kind = "nan" -> FALSE

\* round(x, 2): the decimal with two places nearest to the exact value of
\* x, ties to even, converted back to a double; a value that is not finite
\* is returned as it is
round2(x) ==
    IF x.kind # "fin" \/ x.m = <<>> \/ x.e >= 0 THEN x
    ELSE RoundQuotient(x.neg, RoundShift(BMulSmall(x.m, 100), -x.e, FALSE), 100, 0)

\* hi + lo for finite nonzero doubles, hi the one with the larger exponent,
\* as <<neg, number, binary exponent, sticky>>.  More than 117 binary
\* places below hi, lo is less than 2^-64 of a unit of hi and only tells on
\* which side of hi the sum lies.
AlignedSum(hi, lo) ==
    IF hi.e - lo.e > 117
    THEN <<hi.neg,
           IF hi.neg = lo.neg THEN BShl(hi.m, 64) ELSE BSub(BShl(hi.m, 64), <<1>>),
           hi.e - 64, TRUE>>
    ELSE With(BShl(hi.m, hi.e - lo.e),
              LAMBDA a :
                  IF hi.neg = lo.neg THEN <<hi.neg, BAdd(a, lo.m), lo.e, FALSE>>
                  ELSE IF BCmp(a, lo.m) >= 0
                  THEN <<hi.neg, BSub(a, lo.m), lo.e, FALSE>>
                  ELSE <<lo.neg, BSub(lo.m, a), lo.e, FALSE>>)

\* the sum rounded; x + (-x) is +0.0
AddFinite(hi, lo) ==
    With(AlignedSum(hi, lo),
         LAMBDA v : IF v[2] = <<>> THEN Zero(FALSE)
                    ELSE RoundToDouble(v[1], v[2], v[3], v[4]))

\* x + y
Add(x, y) ==
    IF x.kind = "nan" \/ y.kind = "nan" THEN NaN
    ELSE IF x.kind = "inf" /\ y.kind = "inf"
    THEN (IF x.neg = y.neg THEN x ELSE NaN)
    ELSE IF x.kind = "inf" THEN x
    ELSE IF y.kind = "inf" THEN y
    ELSE IF x.m = <<>> /\ y.m = <<>> THEN Zero(x.neg /\ y.neg)
    ELSE IF x.m = <<>> THEN y
    ELSE IF y.m = <<>> THEN x
    ELSE With(IF x.e >= y.e THEN <<x, y>> ELSE <<y, x>>,
              LAMBDA p : AddFinite(p[1], p[2]))

\* x - y
Sub(x, y) == Add(x, IF y.kind = "nan" THEN y ELSE [y EXCEPT !.neg = ~y.neg])

\* fabs(x) >= fabs(y)
AbsGe(x, y) ==
    IF x.kind = "nan" \/ y.kind = "nan" THEN FALSE
    ELSE IF x.kind = "inf" THEN TRUE
    ELSE IF y.kind = "inf" THEN FALSE
    ELSE IF y.m = <<>> THEN TRUE
    ELSE IF x.m = <<>> THEN FALSE
    ELSE IF BBitLen(x.m) + x.e # BBitLen(y.m) + y.e
    THEN BBitLen(x.m) + x.e > BBitLen(y.m) + y.e
    ELSE IF x.e >= y.e THEN BCmp(BShl(x.m, x.e - y.e), y.m) >= 0
    ELSE BCmp(x.m, BShl(y.m, y.e - x.e)) >= 0

\* x / n for an integer n > 0
Divide(x, n) ==
    IF x.kind # "fin" THEN x
    ELSE RoundQuotient(x.neg, x.m, n, x.e)

\* x == y
FloatEq(x, y) ==
    /\ x.kind # "nan"
    /\ y.kind # "nan"
    /\ \/ x.kind = "fin" /\ y.kind = "fin" /\ x.m = <<>> /\ y.m = <<>>
       \/ x = y

(***************************************************************************)
(* Text.  A str is the sequence of its Unicode code points.                *)
(***************************************************************************)
None == [none |-> TRUE]

\* the code points str.isspace() holds of: the ones str.strip() removes
Whitespace ==
    {9, 10, 11, 12, 13, 28, 29, 30, 31, 32, 133, 160, 5760} \cup 8192..8202
        \cup {8232, 8233, 8239, 8287, 12288}

UpperCase == 65..90

LowerCase == 97..122

Digits == 48..57

Letters == UpperCase \cup LowerCase

\* s from its first code point that is not in chars on
lstrip_chars(s, chars) ==
    IF \A i \in DOMAIN s : s[i] \in chars THEN <<>>
    ELSE SubSeq(s, CHOOSE i \in DOMAIN s :
                       s[i] \notin chars /\ \A j \in 1..(i - 1) : s[j] \in chars,
                Len(s))

\* s up to its last code point that is not in chars
rstrip_chars(s, chars) ==
    IF \A i \in DOMAIN s : s[i] \in chars THEN <<>>
    ELSE SubSeq(s, 1, CHOOSE i \in DOMAIN s :
                          s[i] \notin chars /\ \A j \in (i + 1)..Len(s) : s[j] \in chars)

lstrip(s) == lstrip_chars(s, Whitespace)

rstrip(s) == rstrip_chars(s, Whitespace)

strip(s) == rstrip(lstrip(s))

\* The simple lower-case mappings of the Unicode database (version 14, the
\* one of CPython 3.11): <<first, last, step, delta>> maps the code points
\* first, first + step, ..., last each to itself plus delta.
LowerRuns == {
    <<65, 90, 1, 32>>, <<192, 214, 1, 32>>, <<216, 222, 1, 32>>,
    <<256, 302, 2, 1>>, <<306, 310, 2, 1>>, <<313, 327, 2, 1>>,
    <<330, 374, 2, 1>>, <<376, 376, 1, -121>>, <<377, 381, 2, 1>>,
    <<385, 385, 1, 210>>, <<386, 388, 2, 1>>, <<390, 390, 1, 206>>,
    <<391, 391, 1, 1>>, <<393, 394, 1, 205>>, <<395, 395, 1, 1>>,
    <<398, 398, 1, 79>>, <<399, 399, 1, 202>>, <<400, 400, 1, 203>>,
    <<401, 401, 1, 1>>, <<403, 403, 1, 205>>, <<404, 404, 1, 207>>,
    <<406, 406, 1, 211>>, <<407, 407, 1, 209>>, <<408, 408, 1, 1>>,
    <<412, 412, 1, 211>>, <<413, 413, 1, 213>>, <<415, 415, 1, 214>>,
    <<416, 420, 2, 1>>, <<422, 422, 1, 218>>, <<423, 423, 1, 1>>,
    <<425, 425, 1, 218>>, <<428, 428, 1, 1>>, <<430, 430, 1, 218>>,
    <<431, 431, 1, 1>>, <<433, 434, 1, 217>>, <<435, 437, 2, 1>>,
    <<439, 439, 1, 219>>, <<440, 440, 1, 1>>, <<444, 444, 1, 1>>,
    <<452, 452, 1, 2>>, <<453, 453, 1, 1>>, <<455, 455, 1, 2>>,
    <<456, 456, 1, 1>>, <<458, 458, 1, 2>>, <<459, 475, 2, 1>>,
    <<478, 494, 2, 1>>, <<497, 497, 1, 2>>, <<498, 500, 2, 1>>,
    <<502, 502, 1, -97>>, <<503, 503, 1, -56>>, <<504, 542, 2, 1>>,
    <<544, 544, 1, -130>>, <<546, 562, 2, 1>>, <<570, 570, 1, 10795>>,
    <<571, 571, 1, 1>>, <<573, 573, 1, -163>>, <<574, 574, 1, 10792>>,
    <<577, 577, 1, 1>>, <<579, 579, 1, -195>>, <<580, 580, 1, 69>>,
    <<581, 581, 1, 71>>, <<582, 590, 2, 1>>, <<880, 882, 2, 1>>,
    <<886, 886, 1, 1>>, <<895, 895, 1, 116>>, <<902, 902, 1, 38>>,
    <<904, 906, 1, 37>>, <<908, 908, 1, 64>>, <<910, 911, 1, 63>>,
    <<913, 929, 1, 32>>, <<931, 939, 1, 32>>, <<975, 975, 1, 8>>,
    <<984, 1006, 2, 1>>, <<1012, 1012, 1, -60>>, <<1015, 1015, 1, 1>>,
    <<1017, 1017, 1, -7>>, <<1018, 1018, 1, 1>>, <<1021, 1023, 1, -130>>,
    <<1024, 1039, 1, 80>>, <<1040, 1071, 1, 32>>, <<1120, 1152, 2, 1>>,
    <<1162, 1214, 2, 1>>, <<1216, 1216, 1, 15>>, <<1217, 1229, 2, 1>>,
    <<1232, 1326, 2, 1>>, <<1329, 1366, 1, 48>>, <<4256, 4293, 1, 7264>>,
    <<4295, 4295, 1, 7264>>, <<4301, 4301, 1, 7264>>,
    <<5024, 5103, 1, 38864>>, <<5104, 5109, 1, 8>>, <<7312, 7354, 1, -3008>>,
    <<7357, 7359, 1, -3008>>, <<7680, 7828, 2, 1>>, <<7838, 7838, 1, -7615>>,
    <<7840, 7934, 2, 1>>, <<7944, 7951, 1, -8>>, <<7960, 7965, 1, -8>>,
    <<7976, 7983, 1, -8>>, <<7992, 7999, 1, -8>>, <<8008, 8013, 1, -8>>,
    <<8025, 8031, 2, -8>>, <<8040, 8047, 1, -8>>, <<8072, 8079, 1, -8>>,
    <<8088, 8095, 1, -8>>, <<8104, 8111, 1, -8>>, <<8120, 8121, 1, -8>>,
    <<8122, 8123, 1, -74>>, <<8124, 8124, 1, -9>>, <<8136, 8139, 1, -86>>,
    <<8140, 8140, 1, -9>>, <<8152, 8153, 1, -8>>, <<8154, 8155, 1, -100>>,
    <<8168, 8169, 1, -8>>, <<8170, 8171, 1, -112>>, <<8172, 8172, 1, -7>>,
    <<8184, 8185, 1, -128>>, <<8186, 8187, 1, -126>>, <<8188, 8188, 1, -9>>,
    <<8486, 8486, 1, -7517>>, <<8490, 8490, 1, -8383>>,
    <<8491, 8491, 1, -8262>>, <<8498, 8498, 1, 28>>, <<8544, 8559, 1, 16>>,
    <<8579, 8579, 1, 1>>, <<9398, 9423, 1, 26>>, <<11264, 11311, 1, 48>>,
    <<11360, 11360, 1, 1>>, <<11362, 11362, 1, -10743>>,
    <<11363, 11363, 1, -3814>>, <<11364, 11364, 1, -10727>>,
    <<11367, 11371, 2, 1>>, <<11373, 11373, 1, -10780>>,
    <<11374, 11374, 1, -10749>>, <<11375, 11375, 1, -10783>>,
    <<11376, 11376, 1, -10782>>, <<11378, 11378, 1, 1>>,
    <<11381, 11381, 1, 1>>, <<11390, 11391, 1, -10815>>,
    <<11392, 11490, 2, 1>>, <<11499, 11501, 2, 1>>, <<11506, 11506, 1, 1>>,
    <<42560, 42604, 2, 1>>, <<42624, 42650, 2, 1>>, <<42786, 42798, 2, 1>>,
    <<42802, 42862, 2, 1>>, <<42873, 42875, 2, 1>>,
    <<42877, 42877, 1, -35332>>, <<42878, 42886, 2, 1>>,
    <<42891, 42891, 1, 1>>, <<42893, 42893, 1, -42280>>,
    <<42896, 42898, 2, 1>>, <<42902, 42920, 2, 1>>,
    <<42922, 42922, 1, -42308>>, <<42923, 42923, 1, -42319>>,
    <<42924, 42924, 1, -42315>>, <<42925, 42925, 1, -42305>>,
    <<42926, 42926, 1, -42308>>, <<42928, 42928, 1, -42258>>,
    <<42929, 42929, 1, -42282>>, <<42930, 42930, 1, -42261>>,
    <<42931, 42931, 1, 928>>, <<42932, 42946, 2, 1>>,
    <<42948, 42948, 1, -48>>, <<42949, 42949, 1, -42307>>,
    <<42950, 42950, 1, -35384>>, <<42951, 42953, 2, 1>>,
    <<42960, 42960, 1, 1>>, <<42966, 42968, 2, 1>>, <<42997, 42997, 1, 1>>,
    <<65313, 65338, 1, 32>>, <<66560, 66599, 1, 40>>, <<66736, 66771, 1, 40>>,
    <<66928, 66938, 1, 39>>, <<66940, 66954, 1, 39>>, <<66956, 66962, 1, 39>>,
    <<66964, 66965, 1, 39>>, <<68736, 68786, 1, 64>>, <<71840, 71871, 1, 32>>,
    <<93760, 93791, 1, 32>>, <<125184, 125217, 1, 34>> }

InRun(c, r) == r[1] <= c /\ c <= r[2] /\ (c - r[1]) % r[3] = 0

\* Code points that are case-ignorable, and code points that are cased and
\* not case-ignorable, as <<first, last>> ranges: the context of a final
\* sigma.
CaseIgnorable == {
    <<39, 39>>, <<46, 46>>, <<58, 58>>, <<94, 94>>, <<96, 96>>, <<168, 168>>,
    <<173, 173>>, <<175, 175>>, <<180, 180>>, <<183, 184>>, <<688, 879>>,
    <<884, 885>>, <<890, 890>>, <<900, 901>>, <<903, 903>>, <<1155, 1161>>,
    <<1369, 1369>>, <<1375, 1375>>, <<1425, 1469>>, <<1471, 1471>>,
    <<1473, 1474>>, <<1476, 1477>>, <<1479, 1479>>, <<1524, 1524>>,
    <<1536, 1541>>, <<1552, 1562>>, <<1564, 1564>>, <<1600, 1600>>,
    <<1611, 1631>>, <<1648, 1648>>, <<1750, 1757>>, <<1759, 1768>>,
    <<1770, 1773>>, <<1807, 1807>>, <<1809, 1809>>, <<1840, 1866>>,
    <<1958, 1968>>, <<2027, 2037>>, <<2042, 2042>>, <<2045, 2045>>,
    <<2070, 2093>>, <<2137, 2139>>, <<2184, 2184>>, <<2192, 2193>>,
    <<2200, 2207>>, <<2249, 2306>>, <<2362, 2362>>, <<2364, 2364>>,
    <<2369, 2376>>, <<2381, 2381>>, <<2385, 2391>>, <<2402, 2403>>,
    <<2417, 2417>>, <<2433, 2433>>, <<2492, 2492>>, <<2497, 2500>>,
    <<2509, 2509>>, <<2530, 2531>>, <<2558, 2558>>, <<2561, 2562>>,
    <<2620, 2620>>, <<2625, 2626>>, <<2631, 2632>>, <<2635, 2637>>,
    <<2641, 2641>>, <<2672, 2673>>, <<2677, 2677>>, <<2689, 2690>>,
    <<2748, 2748>>, <<2753, 2757>>, <<2759, 2760>>, <<2765, 2765>>,
    <<2786, 2787>>, <<2810, 2815>>, <<2817, 2817>>, <<2876, 2876>>,
    <<2879, 2879>>, <<2881, 2884>>, <<2893, 2893>>, <<2901, 2902>>,
    <<2914, 2915>>, <<2946, 2946>>, <<3008, 3008>>, <<3021, 3021>>,
    <<3072, 3072>>, <<3076, 3076>>, <<3132, 3132>>, <<3134, 3136>>,
    <<3142, 3144>>, <<3146, 3149>>, <<3157, 3158>>, <<3170, 3171>>,
    <<3201, 3201>>, <<3260, 3260>>, <<3263, 3263>>, <<3270, 3270>>,
    <<3276, 3277>>, <<3298, 3299>>, <<3328, 3329>>, <<3387, 3388>>,
    <<3393, 3396>>, <<3405, 3405>>, <<3426, 3427>>, <<3457, 3457>>,
    <<3530, 3530>>, <<3538, 3540>>, <<3542, 3542>>, <<3633, 3633>>,
    <<3636, 3642>>, <<3654, 3662>>, <<3761, 3761>>, <<3764, 3772>>,
    <<3782, 3782>>, <<3784, 3789>>, <<3864, 3865>>, <<3893, 3893>>,
    <<3895, 3895>>, <<3897, 3897>>, <<3953, 3966>>, <<3968, 3972>>,
    <<3974, 3975>>, <<3981, 3991>>, <<3993, 4028>>, <<4038, 4038>>,
    <<4141, 4144>>, <<4146, 4151>>, <<4153, 4154>>, <<4157, 4158>>,
    <<4184, 4185>>, <<4190, 4192>>, <<4209, 4212>>, <<4226, 4226>>,
    <<4229, 4230>>, <<4237, 4237>>, <<4253, 4253>>, <<4348, 4348>>,
    <<4957, 4959>>, <<5906, 5908>>, <<5938, 5939>>, <<5970, 5971>>,
    <<6002, 6003>>, <<6068, 6069>>, <<6071, 6077>>, <<6086, 6086>>,
    <<6089, 6099>>, <<6103, 6103>>, <<6109, 6109>>, <<6155, 6159>>,
    <<6211, 6211>>, <<6277, 6278>>, <<6313, 6313>>, <<6432, 6434>>,
    <<6439, 6440>>, <<6450, 6450>>, <<6457, 6459>>, <<6679, 6680>>,
    <<6683, 6683>>, <<6742, 6742>>, <<6744, 6750>>, <<6752, 6752>>,
    <<6754, 6754>>, <<6757, 6764>>, <<6771, 6780>>, <<6783, 6783>>,
    <<6823, 6823>>, <<6832, 6862>>, <<6912, 6915>>, <<6964, 6964>>,
    <<6966, 6970>>, <<6972, 6972>>, <<6978, 6978>>, <<7019, 7027>>,
    <<7040, 7041>>, <<7074, 7077>>, <<7080, 7081>>, <<7083, 7085>>,
    <<7142, 7142>>, <<7144, 7145>>, <<7149, 7149>>, <<7151, 7153>>,
    <<7212, 7219>>, <<7222, 7223>>, <<7288, 7293>>, <<7376, 7378>>,
    <<7380, 7392>>, <<7394, 7400>>, <<7405, 7405>>, <<7412, 7412>>,
    <<7416, 7417>>, <<7468, 7530>>, <<7544, 7544>>, <<7579, 7679>>,
    <<8125, 8125>>, <<8127, 8129>>, <<8141, 8143>>, <<8157, 8159>>,
    <<8173, 8175>>, <<8189, 8190>>, <<8203, 8207>>, <<8216, 8217>>,
    <<8228, 8228>>, <<8231, 8231>>, <<8234, 8238>>, <<8288, 8292>>,
    <<8294, 8303>>, <<8305, 8305>>, <<8319, 8319>>, <<8336, 8348>>,
    <<8400, 8432>>, <<11388, 11389>>, <<11503, 11505>>, <<11631, 11631>>,
    <<11647, 11647>>, <<11744, 11775>>, <<11823, 11823>>, <<12293, 12293>>,
    <<12330, 12333>>, <<12337, 12341>>, <<12347, 12347>>, <<12441, 12446>>,
    <<12540, 12542>>, <<40981, 40981>>, <<42232, 42237>>, <<42508, 42508>>,
    <<42607, 42610>>, <<42612, 42621>>, <<42623, 42623>>, <<42652, 42655>>,
    <<42736, 42737>>, <<42752, 42785>>, <<42864, 42864>>, <<42888, 42890>>,
    <<42994, 42996>>, <<43000, 43001>>, <<43010, 43010>>, <<43014, 43014>>,
    <<43019, 43019>>, <<43045, 43046>>, <<43052, 43052>>, <<43204, 43205>>,
    <<43232, 43249>>, <<43263, 43263>>, <<43302, 43309>>, <<43335, 43345>>,
    <<43392, 43394>>, <<43443, 43443>>, <<43446, 43449>>, <<43452, 43453>>,
    <<43471, 43471>>, <<43493, 43494>>, <<43561, 43566>>, <<43569, 43570>>,
    <<43573, 43574>>, <<43587, 43587>>, <<43596, 43596>>, <<43632, 43632>>,
    <<43644, 43644>>, <<43696, 43696>>, <<43698, 43700>>, <<43703, 43704>>,
    <<43710, 43711>>, <<43713, 43713>>, <<43741, 43741>>, <<43756, 43757>>,
    <<43763, 43764>>, <<43766, 43766>>, <<43867, 43871>>, <<43881, 43883>>,
    <<44005, 44005>>, <<44008, 44008>>, <<44013, 44013>>, <<64286, 64286>>,
    <<64434, 64450>>, <<65024, 65039>>, <<65043, 65043>>, <<65056, 65071>>,
    <<65106, 65106>>, <<65109, 65109>>, <<65279, 65279>>, <<65287, 65287>>,
    <<65294, 65294>>, <<65306, 65306>>, <<65342, 65342>>, <<65344, 65344>>,
    <<65392, 65392>>, <<65438, 65439>>, <<65507, 65507>>, <<65529, 65531>>,
    <<66045, 66045>>, <<66272, 66272>>, <<66422, 66426>>, <<67456, 67461>>,
    <<67463, 67504>>, <<67506, 67514>>, <<68097, 68099>>, <<68101, 68102>>,
    <<68108, 68111>>, <<68152, 68154>>, <<68159, 68159>>, <<68325, 68326>>,
    <<68900, 68903>>, <<69291, 69292>>, <<69446, 69456>>, <<69506, 69509>>,
    <<69633, 69633>>, <<69688, 69702>>, <<69744, 69744>>, <<69747, 69748>>,
    <<69759, 69761>>, <<69811, 69814>>, <<69817, 69818>>, <<69821, 69821>>,
    <<69826, 69826>>, <<69837, 69837>>, <<69888, 69890>>, <<69927, 69931>>,
    <<69933, 69940>>, <<70003, 70003>>, <<70016, 70017>>, <<70070, 70078>>,
    <<70089, 70092>>, <<70095, 70095>>, <<70191, 70193>>, <<70196, 70196>>,
    <<70198, 70199>>, <<70206, 70206>>, <<70367, 70367>>, <<70371, 70378>>,
    <<70400, 70401>>, <<70459, 70460>>, <<70464, 70464>>, <<70502, 70508>>,
    <<70512, 70516>>, <<70712, 70719>>, <<70722, 70724>>, <<70726, 70726>>,
    <<70750, 70750>>, <<70835, 70840>>, <<70842, 70842>>, <<70847, 70848>>,
    <<70850, 70851>>, <<71090, 71093>>, <<71100, 71101>>, <<71103, 71104>>,
    <<71132, 71133>>, <<71219, 71226>>, <<71229, 71229>>, <<71231, 71232>>,
    <<71339, 71339>>, <<71341, 71341>>, <<71344, 71349>>, <<71351, 71351>>,
    <<71453, 71455>>, <<71458, 71461>>, <<71463, 71467>>, <<71727, 71735>>,
    <<71737, 71738>>, <<71995, 71996>>, <<71998, 71998>>, <<72003, 72003>>,
    <<72148, 72151>>, <<72154, 72155>>, <<72160, 72160>>, <<72193, 72202>>,
    <<72243, 72248>>, <<72251, 72254>>, <<72263, 72263>>, <<72273, 72278>>,
    <<72281, 72283>>, <<72330, 72342>>, <<72344, 72345>>, <<72752, 72758>>,
    <<72760, 72765>>, <<72767, 72767>>, <<72850, 72871>>, <<72874, 72880>>,
    <<72882, 72883>>, <<72885, 72886>>, <<73009, 73014>>, <<73018, 73018>>,
    <<73020, 73021>>, <<73023, 73029>>, <<73031, 73031>>, <<73104, 73105>>,
    <<73109, 73109>>, <<73111, 73111>>, <<73459, 73460>>, <<78896, 78904>>,
    <<92912, 92916>>, <<92976, 92982>>, <<92992, 92995>>, <<94031, 94031>>,
    <<94095, 94111>>, <<94176, 94177>>, <<94179, 94180>>, <<110576, 110579>>,
    <<110581, 110587>>, <<110589, 110590>>, <<113821, 113822>>,
    <<113824, 113827>>, <<118528, 118573>>, <<118576, 118598>>,
    <<119143, 119145>>, <<119155, 119170>>, <<119173, 119179>>,
    <<119210, 119213>>, <<119362, 119364>>, <<121344, 121398>>,
    <<121403, 121452>>, <<121461, 121461>>, <<121476, 121476>>,
    <<121499, 121503>>, <<121505, 121519>>, <<122880, 122886>>,
    <<122888, 122904>>, <<122907, 122913>>, <<122915, 122916>>,
    <<122918, 122922>>, <<123184, 123197>>, <<123566, 123566>>,
    <<123628, 123631>>, <<125136, 125142>>, <<125252, 125259>>,
    <<127995, 127999>>, <<917505, 917505>>, <<917536, 917631>>,
    <<917760, 917999>> }

Cased == {
    <<65, 90>>, <<97, 122>>, <<170, 170>>, <<181, 181>>, <<186, 186>>,
    <<192, 214>>, <<216, 246>>, <<248, 442>>, <<444, 447>>, <<452, 659>>,
    <<661, 687>>, <<880, 883>>, <<886, 887>>, <<891, 893>>, <<895, 895>>,
    <<902, 902>>, <<904, 906>>, <<908, 908>>, <<910, 929>>, <<931, 1013>>,
    <<1015, 1153>>, <<1162, 1327>>, <<1329, 1366>>, <<1376, 1416>>,
    <<4256, 4293>>, <<4295, 4295>>, <<4301, 4301>>, <<4304, 4346>>,
    <<4349, 4351>>, <<5024, 5109>>, <<5112, 5117>>, <<7296, 7304>>,
    <<7312, 7354>>, <<7357, 7359>>, <<7424, 7467>>, <<7531, 7543>>,
    <<7545, 7578>>, <<7680, 7957>>, <<7960, 7965>>, <<7968, 8005>>,
    <<8008, 8013>>, <<8016, 8023>>, <<8025, 8025>>, <<8027, 8027>>,
    <<8029, 8029>>, <<8031, 8061>>, <<8064, 8116>>, <<8118, 8124>>,
    <<8126, 8126>>, <<8130, 8132>>, <<8134, 8140>>, <<8144, 8147>>,
    <<8150, 8155>>, <<8160, 8172>>, <<8178, 8180>>, <<8182, 8188>>,
    <<8450, 8450>>, <<8455, 8455>>, <<8458, 8467>>, <<8469, 8469>>,
    <<8473, 8477>>, <<8484, 8484>>, <<8486, 8486>>, <<8488, 8488>>,
    <<8490, 8493>>, <<8495, 8500>>, <<8505, 8505>>, <<8508, 8511>>,
    <<8517, 8521>>, <<8526, 8526>>, <<8544, 8575>>, <<8579, 8580>>,
    <<9398, 9449>>, <<11264, 11387>>, <<11390, 11492>>, <<11499, 11502>>,
    <<11506, 11507>>, <<11520, 11557>>, <<11559, 11559>>, <<11565, 11565>>,
    <<42560, 42605>>, <<42624, 42651>>, <<42786, 42863>>, <<42865, 42887>>,
    <<42891, 42894>>, <<42896, 42954>>, <<42960, 42961>>, <<42963, 42963>>,
    <<42965, 42969>>, <<42997, 42998>>, <<43002, 43002>>, <<43824, 43866>>,
    <<43872, 43880>>, <<43888, 43967>>, <<64256, 64262>>, <<64275, 64279>>,
    <<65313, 65338>>, <<65345, 65370>>, <<66560, 66639>>, <<66736, 66771>>,
    <<66776, 66811>>, <<66928, 66938>>, <<66940, 66954>>, <<66956, 66962>>,
    <<66964, 66965>>, <<66967, 66977>>, <<66979, 66993>>, <<66995, 67001>>,
    <<67003, 67004>>, <<68736, 68786>>, <<68800, 68850>>, <<71840, 71903>>,
    <<93760, 93823>>, <<119808, 119892>>, <<119894, 119964>>,
    <<119966, 119967>>, <<119970, 119970>>, <<119973, 119974>>,
    <<119977, 119980>>, <<119982, 119993>>, <<119995, 119995>>,
    <<119997, 120003>>, <<120005, 120069>>, <<120071, 120074>>,
    <<120077, 120084>>, <<120086, 120092>>, <<120094, 120121>>,
    <<120123, 120126>>, <<120128, 120132>>, <<120134, 120134>>,
    <<120138, 120144>>, <<120146, 120485>>, <<120488, 120512>>,
    <<120514, 120538>>, <<120540, 120570>>, <<120572, 120596>>,
    <<120598, 120628>>, <<120630, 120654>>, <<120656, 120686>>,
    <<120688, 120712>>, <<120714, 120744>>, <<120746, 120770>>,
    <<120772, 120779>>, <<122624, 122633>>, <<122635, 122654>>,
    <<125184, 125251>>, <<127280, 127305>>, <<127312, 127337>>,
    <<127344, 127369>> }

InRanges(c, ranges) == \E r \in ranges : r[1] <= c /\ c <= r[2]

\* GREEK CAPITAL LETTER SIGMA at s[i] is a final sigma when a cased letter
\* precedes it and none follows it, case-ignorable code points skipped
final_sigma(s, i) ==
    With({j \in DOMAIN s : ~InRanges(s[j], CaseIgnorable)},
         LAMBDA letters :
             With({j \in letters : InRanges(s[j], Cased)},
                  LAMBDA cased :
                      /\ \E j \in cased :
                            j < i /\ \A k \in letters : k < i => k <= j
                      /\ \A j \in cased :
                            j > i => \E k \in letters : i < k /\ k < j))

\* the lower case of the code point s[i]: a str, since LATIN CAPITAL
\* LETTER I WITH DOT ABOVE becomes two code points
lower_char(s, i) ==
    IF s[i] < 128 THEN (IF s[i] \in UpperCase THEN <<s[i] + 32>> ELSE <<s[i]>>)
    ELSE IF s[i] = 304 THEN <<105, 775>>
    ELSE IF s[i] = 931 THEN (IF final_sigma(s, i) THEN <<962>> ELSE <<963>>)
    ELSE With({r \in LowerRuns : InRun(s[i], r)},
              LAMBDA runs : IF runs = {} THEN <<s[i]>>
                            ELSE <<s[i] + (CHOOSE r \in runs : TRUE)[4]>>)

\* str.lower
lower(s) == Fold(LAMBDA acc, i : acc \o lower_char(s, i), 1, Len(s), <<>>)

\* request.form.get(key, default)
Get(form, key, default) ==
    IF key \in DOMAIN form THEN form[key] ELSE default

(***************************************************************************)
(* float(str)                                                              *)
(***************************************************************************)
ValueError == [raised |-> "ValueError"]

\* The code points of the digit zero of every decimal digit block; the
\* digits one to nine follow each.
DecimalZeros == {
    48, 1632, 1776, 1984, 2406, 2534, 2662, 2790, 2918, 3046, 3174, 3302,
    3430, 3558, 3664, 3792, 3872, 4160, 4240, 6112, 6160, 6470, 6608, 6784,
    6800, 6992, 7088, 7232, 7248, 42528, 43216, 43264, 43472, 43504, 43600,
    44016, 65296, 66720, 68912, 69734, 69872, 69942, 70096, 70384, 70736,
    70864, 71248, 71360, 71472, 71904, 72016, 72784, 73040, 73120, 92768,
    92864, 93008, 120782, 120792, 120802, 120812, 120822, 123200, 123632,
    125264, 130032 }

\* float() first turns every code point from 127 up into ASCII: white
\* space into a space, a decimal digit into its ASCII digit, anything else
\* into a question mark
to_ascii(c) ==
    IF c < 127 THEN c
    ELSE IF c \in Whitespace THEN 32
    ELSE With({z \in DecimalZeros : c \in z..(z + 9)},
              LAMBDA zeros : IF zeros = {} THEN 63
                             ELSE 48 + c - (CHOOSE z \in zeros : TRUE))

\* white space of the C locale, which is what float() strips
AsciiSpace == {9, 10, 11, 12, 13, 32}

float_lstrip(s) == lstrip_chars(s, AsciiSpace)

\* the white space at the end is dropped, down to one code point
float_rstrip(s) ==
    IF s = <<>> THEN s ELSE <<Head(s)>> \o rstrip_chars(Tail(s), AsciiSpace)

\* an underscore is allowed only between two digits
underscores_ok(s) ==
    \A i \in DOMAIN s :
        s[i] = 95 => /\ i > 1 /\ s[i - 1] \in Digits
                     /\ i < Len(s) /\ s[i + 1] \in Digits

without_underscores(s) == SelectSeq(s, LAMBDA c : c # 95)

ascii_lower(s) ==
    [i \in DOMAIN s |-> IF s[i] \in UpperCase THEN s[i] + 32 ELSE s[i]]

\* the number with the decimal digits s
digits_value(s, n) ==
    Fold(LAMBDA acc, i : BMulAdd(acc, 10, s[i] - 48), 1, Len(s), n)

strip_zeros(s) == lstrip_chars(s, {48})

\* The value of an exponent, capped: no str the model handles is long
\* enough for an exponent beyond the cap to give a finite nonzero double.
ExponentCap == 100000

exponent_value(s, n) ==
    Fold(LAMBDA acc, i : IF acc >= ExponentCap THEN ExponentCap
                         ELSE 10 * acc + s[i] - 48,
         1, Len(s), n)

\* s.partition(c) for a code point c of chars: <<head, whether one was
\* found, tail>>
Partition(s, chars) ==
    IF \E i \in DOMAIN s : s[i] \in chars
    THEN With(CHOOSE i \in DOMAIN s :
                  s[i] \in chars /\ \A j \in 1..(i - 1) : s[j] \notin chars,
              LAMBDA i : <<SubSeq(s, 1, i - 1), TRUE, SubSeq(s, i + 1, Len(s))>>)
    ELSE <<s, FALSE, <<>>>>

AllDigits(s) == \A i \in DOMAIN s : s[i] \in Digits

\* the exponent written as s with an optional sign
signed_exponent(s) ==
    IF s # <<>> /\ Head(s) = 45 THEN -exponent_value(Tail(s), 0)
    ELSE IF s # <<>> /\ Head(s) = 43 THEN exponent_value(Tail(s), 0)
    ELSE exponent_value(s, 0)

exponent_ok(s) ==
    IF s # <<>> /\ Head(s) \in {43, 45}
    THEN Tail(s) # <<>> /\ AllDigits(Tail(s))
    ELSE s # <<>> /\ AllDigits(s)

\* the double of the digits whole, a point, the digits fraction, times ten
\* to the exponent
decimal_value(neg, digits, fraction, exponent) ==
    DecimalToDouble(neg, digits_value(digits, <<>>), Len(digits),
                    exponent - Len(fraction))

\* digits, optionally a point, digits (a digit at least), and optionally
\* e or E, a sign, digits: m is the mantissa, with_e whether an e follows
\* it, and exponent what follows the e
parse_mantissa(neg, m, with_e, exponent) ==
    IF /\ AllDigits(m[1]) /\ AllDigits(m[3])
       /\ m[1] \o m[3] # <<>>
       /\ with_e => exponent_ok(exponent)
    THEN decimal_value(neg, strip_zeros(m[1] \o m[3]), m[3],
                       signed_exponent(exponent))
    ELSE ValueError

parse_decimal(neg, s) ==
    With(Partition(s, {69, 101}),
         LAMBDA p : parse_mantissa(neg, Partition(p[1], {46}), p[2], p[3]))

\* the sign is read off, then the word or the number
float_signed(s) ==
    IF s # <<>> /\ Head(s) \in {43, 45}
    THEN <<Head(s) = 45, without_underscores(Tail(s))>>
    ELSE <<FALSE, without_underscores(s)>>

float_unsigned(neg, t, word) ==
    IF word = <<105, 110, 102>> THEN Inf(neg)                        \* inf
    ELSE IF word = <<105, 110, 102, 105, 110, 105, 116, 121>>        \* infinity
    THEN Inf(neg)
    ELSE IF word = <<110, 97, 110>> THEN NaN                         \* nan
    ELSE parse_decimal(neg, t)

float_stripped(s) ==
    IF ~underscores_ok(s) THEN ValueError
    ELSE With(float_signed(s),
              LAMBDA t : float_unsigned(t[1], t[2], ascii_lower(t[2])))

float(str) ==
    float_stripped(float_rstrip(float_lstrip([i \in DOMAIN str |-> to_ascii(str[i])])))
(***************************************************************************)
(* datetime.now().strftime('%Y-%m-%d') and the order of the strings it     *)
(* produces.  A date is <<year, month, day>>.                              *)
(***************************************************************************)
\* the decimal digits of n, zero-padded to width w
RECURSIVE zfill(_, _)
zfill(n, w) ==
    IF w = 0 THEN <<>> ELSE Append(zfill(n \div 10, w - 1), 48 + (n % 10))

strftime(d) == zfill(d[1], 4) \o <<45>> \o zfill(d[2], 2) \o <<45>> \o zfill(d[3], 2)

\* str < str, the order of the code points: at the first position where
\* they differ a has ended or has the lesser code point
StrLess(a, b) ==
    \E i \in DOMAIN b :
        /\ \A j \in 1..(i - 1) : j <= Len(a) /\ a[j] = b[j]
        /\ i <= Len(a) => a[i] < b[i]

\* the clock: day t of the run
now(t) == <<2026, 11, t>>

(***************************************************************************)
(* Module globals                                                          *)
(***************************************************************************)
active == <<97, 99, 116, 105, 118, 101>>

inactive == <<105, 110, 97, 99, 116, 105, 118, 101>>

basic == <<98, 97, 115, 105, 99>>

standard == <<115, 116, 97, 110, 100, 97, 114, 100>>

premium == <<112, 114, 101, 109, 105, 117, 109>>

SeedAccounts ==
    << [id |-> 1,
        first_name |-> <<74, 111, 104, 110>>,
        last_name |-> <<68, 111, 101>>,
        \* 'john.doe@example.com'
        email |-> <<106, 111, 104, 110, 46, 100, 111, 101, 64, 101, 120, 97, 109, 112, 108, 101, 46, 99, 111, 109>>,
        account_type |-> premium,
        department |-> <<83, 97, 108, 101, 115>>,
        status |-> active,
        created_date |-> strftime(<<2024, 1, 15>>),
        balance |-> DecimalToDouble(FALSE, BFromNat(15750), 5, 0)],
       [id |-> 2,
        first_name |-> <<83, 97, 114, 97, 104>>,
        last_name |-> <<74, 111, 104, 110, 115, 111, 110>>,
        \* 'sarah.j@example.com'
        email |-> <<115, 97, 114, 97, 104, 46, 106, 64, 101, 120, 97, 109, 112, 108, 101, 46, 99, 111, 109>>,
        account_type |-> standard,
        department |-> <<77, 97, 114, 107, 101, 116, 105, 110, 103>>,
        status |-> active,
        created_date |-> strftime(<<2024, 2, 20>>),
        balance |-> DecimalToDouble(FALSE, BFromNat(8250), 4, 0)],
       [id |-> 3,
        first_name |-> <<77, 105, 107, 101>>,
        last_name |-> <<67, 104, 101, 110>>,
        \* 'mike.chen@example.com'
        email |-> <<109, 105, 107, 101, 46, 99, 104, 101, 110, 64, 101, 120, 97, 109, 112, 108, 101, 46, 99, 111, 109>>,
        account_type |-> basic,
        department |-> <<83, 117, 112, 112, 111, 114, 116>>,
        status |-> inactive,
        created_date |-> strftime(<<2024, 3, 10>>),
        balance |-> DecimalToDouble(FALSE, BFromNat(2100), 4, 0)] >>

MaxOf(S) == CHOOSE x \in S : \A y \in S : y <= x

\* next_id = max([acc['id'] for acc in accounts]) + 1 if accounts else 1
InitialNextId(accs) ==
    IF accs # <<>> THEN MaxOf({accs[i].id : i \in 1..Len(accs)}) + 1 ELSE 1

\* the dicts of a list of identities, in the order of the list
Dicts(h, list) == [i \in 1..Len(list) |-> h[list[i]]]

\* the identity a new object gets: the first one free
Allocate(h) ==
    CHOOSE o \in 1..(Cardinality(DOMAIN h) + 1) :
        o \notin DOMAIN h /\ \A p \in 1..(o - 1) : p \in DOMAIN h

(***************************************************************************)
(* Utility functions                                                       *)
(***************************************************************************)
\* [a-zA-Z0-9._%+-]
LocalChars == Letters \cup Digits \cup {46, 95, 37, 43, 45}

\* [a-zA-Z0-9.-]
DomainChars == Letters \cup Digits \cup {46, 45}

\* re.match(r'^[a-zA-Z0-9._%+-]+@[a-zA-Z0-9.-]+\.[a-zA-Z]{2,}$', email):
\* i is the position of the "@", j of the "." before the final letters,
\* e the end of the match ($ also matches before one final newline)
validate_email(email) ==
    \E i \in 1..Len(email), j \in 1..Len(email), e \in 1..Len(email) :
        /\ email[i] = 64
        /\ i > 1
        /\ \A k \in 1..(i - 1) : email[k] \in LocalChars
        /\ j > i + 1
        /\ \A k \in (i + 1)..(j - 1) : email[k] \in DomainChars
        /\ email[j] = 46
        /\ e >= j + 2
        /\ \A k \in (j + 1)..e : email[k] \in Letters
        /\ \/ e = Len(email)
           \/ e = Len(email) - 1 /\ email[Len(email)] = 10

\* a balance check without the range tests
validate_balance_unbounded(balance_str) ==
    With(float(balance_str),
         LAMBDA balance :
             IF balance = ValueError
             THEN <<None, "Invalid balance format">>
             ELSE <<round2(balance), "None">>)

\* returns <<value, error>>
validate_balance(balance_str) ==
    With(float(balance_str),
         LAMBDA balance :
             IF balance = ValueError
             THEN <<None, "Invalid balance format">>
             ELSE IF LessThanZero(balance)
             THEN <<None, "Balance cannot be negative">>
             ELSE IF GreaterThanMillion(balance)
             THEN <<None, "Balance too large">>
             ELSE <<round2(balance), "None">>)

(***************************************************************************)
(* Loops over the list.  A for loop or a generator expression over         *)
(* accounts holds a list iterator: the number i of elements it has         *)
(* handed out.  Asked for the next element it hands out list[i] (counted   *)
(* from 0) if the list, as it is then, has more than i elements, and is    *)
(* exhausted otherwise.  Other threads run between two elements.           *)
(***************************************************************************)
\* a lookup that answers the last account for an id that is not there
find_account_last(h, list, i, account_id) ==
    IF i >= Len(list)
    THEN [done |-> TRUE, account |-> IF list = <<>> THEN 0 ELSE list[Len(list)]]
    ELSE IF h[list[i + 1]].id = account_id
    THEN [done |-> TRUE, account |-> list[i + 1]]
    ELSE [done |-> FALSE, account |-> 0]

\* next((acc for acc in accounts if acc['id'] == account_id), None), one
\* element further: done with the identity found, or with 0 for None when
\* the iterator is exhausted, or not done
find_account(h, list, i, account_id) ==
    IF i >= Len(list) THEN [done |-> TRUE, account |-> 0]
    ELSE IF h[list[i + 1]].id = account_id
    THEN [done |-> TRUE, account |-> list[i + 1]]
    ELSE [done |-> FALSE, account |-> 0]

\* len([acc for acc in accounts if acc['status'] == 'active']), one element
\* further: the length of the list built so far
count_active(h, list, i, count) ==
    IF h[list[i + 1]].status = active THEN count + 1 ELSE count

\* sum(...), the first item x: the integer 0 plus x
sum_first(x) == [total |-> Add(Zero(FALSE), x), c |-> Zero(FALSE)]

\* sum(...), one more item x.  Through CPython 3.11 the items are added one
\* by one; from CPython 3.12 on the rounding errors of the additions are
\* added up in c as well (Neumaier).
sum_next(with_c, s, x) ==
    With(Add(s.total, x),
         LAMBDA t :
             [total |-> t,
              c |-> IF ~with_c THEN s.c
                    ELSE IF AbsGe(s.total, x)
                    THEN Add(s.c, Add(Sub(s.total, t), x))
                    ELSE Add(s.c, Add(Sub(x, t), s.total))])

\* sum(...), the iterator exhausted: c is added when it is finite and not 0
sum(s) ==
    IF s.c.kind = "fin" /\ s.c.m # <<>> THEN Add(s.total, s.c) ELSE s.total

\* a dict whose average is taken over the active accounts
stats_dict_active(total_accounts, active_accounts, total_balance) ==
    [total_accounts |-> total_accounts,
     active_accounts |-> active_accounts,
     inactive_accounts |-> total_accounts - active_accounts,
     total_balance |-> total_balance,
     average_balance |-> IF active_accounts > 0
                         THEN Divide(total_balance, active_accounts)
                         ELSE Zero(FALSE)]

\* lines 90 to 98, from the three values read off the list
stats_dict(total_accounts, active_accounts, total_balance) ==
    [total_accounts |-> total_accounts,
     active_accounts |-> active_accounts,
     inactive_accounts |-> total_accounts - active_accounts,
     total_balance |-> total_balance,
     average_balance |-> IF total_accounts > 0
                         THEN Divide(total_balance, total_accounts)
                         ELSE Zero(FALSE)]

(***************************************************************************)
(* Responses: the template rendered or the endpoint redirected to, the     *)
(* messages flashed while handling the request, and the template data.     *)
(***************************************************************************)
\* flash(message, category); args are the values formatted into the message
flash(message, args, category) ==
    [message |-> message, args |-> args, category |-> category]

render_template(template, flashes, account_id, stats, recent) ==
    [kind |-> "render", target |-> template, code |-> 200, flashes |-> flashes,
     account_id |-> account_id, stats |-> stats, recent_accounts |-> recent]

redirect(endpoint, flashes, account_id) ==
    [kind |-> "redirect", target |-> endpoint, code |-> 302, flashes |-> flashes,
     account_id |-> account_id, stats |-> None, recent_accounts |-> <<>>]

\* the handler of an exception no route catches
internal_error ==
    [kind |-> "render", target |-> "error.html", code |-> 500, flashes |-> <<>>,
     account_id |-> 0, stats |-> None, recent_accounts |-> <<>>]

\* only the first error is reported
flash_errors_first(errors) ==
    [i \in 1..(IF errors = <<>> THEN 0 ELSE 1) |-> flash(errors[i], <<>>, "error")]

\* for error in errors: flash(error, 'error')
flash_errors(errors) ==
    [i \in 1..Len(errors) |-> flash(errors[i], <<>>, "error")]

(***************************************************************************)
(* Server threads                                                          *)
(***************************************************************************)
MaxThreads == 2

Threads == 1..MaxThreads

Idle == [pc |-> "idle", request |-> None, local |-> None, response |-> None]

\* the identities a thread's locals hold
LocalRefs(th) ==
    IF th.local = None THEN {}
    ELSE (IF "account" \in DOMAIN th.local THEN {th.local.account} ELSE {})
         \cup (IF "new_account" \in DOMAIN th.local
               THEN {th.local.new_account} ELSE {})
         \cup (IF "recent_accounts" \in DOMAIN th.local
               THEN {th.local.recent_accounts[i] :
                        i \in 1..Len(th.local.recent_accounts)}
               ELSE {})

\* the objects still referenced, by the list or by a local
Collect(h, list, ths) ==
    LET live == {list[i] : i \in 1..Len(list)}
                    \cup UNION {LocalRefs(ths[t]) : t \in Threads}
    IN  [o \in DOMAIN h \cap live |-> h[o]]

\* thread t goes on to the statement at label with these locals
Goto(t, label, local) ==
    [threads EXCEPT ![t] = [@ EXCEPT !.pc = label, !.local = local]]

\* the handler of thread t returns
Return(t, response) ==
    [threads EXCEPT ![t] = [pc |-> "done", request |-> @.request,
                            local |-> None, response |-> response]]

At(t, label) == threads[t].pc = label

(***************************************************************************)
(* dashboard, with calculate_dashboard_stats                               *)
(***************************************************************************)
\* sorted(accs, key=lambda x: x['created_date'], reverse=True) on a list of
\* identities: the sort is stable, so dicts with equal keys keep their order
\* x put into the sorted list front, behind every element whose key is
\* not less than its own
insert_by_created_date_desc(h, front, x) ==
    With(Cardinality({i \in DOMAIN front :
             ~StrLess(h[front[i]].created_date, h[x].created_date)}),
         LAMBDA p : SubSeq(front, 1, p) \o <<x>> \o SubSeq(front, p + 1, Len(front)))

sorted_by_created_date_desc(h, list) ==
    Fold(LAMBDA front, i : insert_by_created_date_desc(h, front, list[i]),
         1, Len(list), <<>>)

\* s[:5]
first_five(s) == SubSeq(s, 1, IF Len(s) < 5 THEN Len(s) ELSE 5)

\* sorted(...)[:5]
recent_accounts(h, list) == first_five(sorted_by_created_date_desc(h, list))

\* line 87: total_accounts = len(accounts)
dashboard_total_accounts(t) ==
    /\ At(t, "dashboard")
    /\ threads' = Goto(t, "dashboard_active_accounts",
                       [total_accounts |-> Len(accounts), active_accounts |-> 0,
                        i |-> 0])
    /\ UNCHANGED <<heap, accounts, next_id, assigned, today, compensated>>

\* line 88, one element of the list, or the end of the loop
dashboard_active_accounts(t) ==
    /\ At(t, "dashboard_active_accounts")
    /\ \E v \in {threads[t].local} :
           threads' =
               IF v.i >= Len(accounts)
               THEN Goto(t, "dashboard_total_balance",
                         [total_accounts |-> v.total_accounts,
                          active_accounts |-> v.active_accounts,
                          sum |-> [total |-> Zero(FALSE), c |-> Zero(FALSE)],
                          i |-> 0])
               ELSE Goto(t, "dashboard_active_accounts",
                         [v EXCEPT !.active_accounts =
                                       count_active(heap, accounts, v.i, @),
                                   !.i = @ + 1])
    /\ UNCHANGED <<heap, accounts, next_id, assigned, today, compensated>>

\* line 89, one element of the list, or the end of the loop with lines 90
\* to 98
dashboard_total_balance(t) ==
    /\ At(t, "dashboard_total_balance")
    /\ \E v \in {threads[t].local} :
           threads' =
               IF v.i >= Len(accounts)
               THEN Goto(t, "dashboard_recent_accounts",
                         [stats |-> stats_dict(v.total_accounts, v.active_accounts,
                                               sum(v.sum))])
               ELSE Goto(t, "dashboard_total_balance",
                         [v EXCEPT !.sum =
                                       IF v.i = 0
                                       THEN sum_first(heap[accounts[1]].balance)
                                       ELSE sum_next(compensated, @,
                                                     heap[accounts[v.i + 1]].balance),
                                   !.i = @ + 1])
    /\ UNCHANGED <<heap, accounts, next_id, assigned, today, compensated>>

\* line 120: sorted() copies the list in one step; the keys it reads then
\* never change
dashboard_recent_accounts(t) ==
    /\ At(t, "dashboard_recent_accounts")
    /\ threads' = Goto(t, "dashboard_render",
                       [stats |-> threads[t].local.stats,
                        recent_accounts |-> recent_accounts(heap, accounts)])
    /\ UNCHANGED <<heap, accounts, next_id, assigned, today, compensated>>

\* line 121: the template reads the dicts of the recent list
dashboard_render(t) ==
    /\ At(t, "dashboard_render")
    /\ threads' = Return(t, render_template("dashboard.html", <<>>, 0,
                                threads[t].local.stats,
                                Dicts(heap, threads[t].local.recent_accounts)))
    /\ heap' = Collect(heap, accounts, threads')
    /\ UNCHANGED <<accounts, next_id, assigned, today, compensated>>

(***************************************************************************)
(* create_account                                                          *)
(***************************************************************************)
\* a scan that finds no email taken
email_exists_unchecked(h, list, i, email) == [done |-> TRUE, value |-> FALSE]

\* any(acc['email'] == email for acc in accounts), one element further:
\* done with the value of any(), or not done
email_exists(h, list, i, email) ==
    IF i >= Len(list) THEN [done |-> TRUE, value |-> FALSE]
    ELSE IF h[list[i + 1]].email = email THEN [done |-> TRUE, value |-> TRUE]
    ELSE [done |-> FALSE, value |-> FALSE]

\* lines 161 to 166 and 188: the locals read from the form
create_locals(form) ==
    With(validate_balance(Get(form, "balance", <<48>>)),
         LAMBDA checked :
             [first_name |-> strip(Get(form, "first_name", <<>>)),
              last_name |-> strip(Get(form, "last_name", <<>>)),
              email |-> lower(strip(Get(form, "email", <<>>))),
              account_type |-> Get(form, "account_type", <<>>),
              department |-> strip(Get(form, "department", <<>>)),
              balance |-> checked[1],
              balance_error |-> checked[2]])

\* lines 169 to 190: the errors list, from the locals v and the value of
\* any() at line 179 if it was reached
create_errors(v, exists) ==
        (IF v.first_name = <<>> THEN <<"First name is required">> ELSE <<>>)
        \o (IF v.email = <<>> THEN
               (IF v.last_name = <<>> THEN <<"Last name is required">> ELSE <<>>)
               \o <<"Email is required">>
            ELSE
               (IF v.last_name = <<>> THEN <<"Last name is required">> ELSE <<>>)
               \o (IF ~validate_email(v.email) THEN <<"Invalid email format">>
                   ELSE IF exists THEN <<"Email already exists">>
                   ELSE <<>>))
        \o (IF v.account_type = <<>> \/ v.account_type \notin {basic, standard, premium}
            THEN <<"Valid account type is required">> ELSE <<>>)
        \o (IF v.department = <<>> THEN <<"Department is required">> ELSE <<>>)
        \o (IF v.balance_error # "None" THEN <<v.balance_error>> ELSE <<>>)

\* lines 200 to 210
new_account(v, id, date) ==
    [id |-> id,
     first_name |-> v.first_name,
     last_name |-> v.last_name,
     email |-> v.email,
     account_type |-> v.account_type,
     department |-> v.department,
     status |-> active,
     created_date |-> strftime(date),
     balance |-> v.balance]

\* a counter that is not advanced
increment_forgotten(n) == n

\* next_id += 1, on the value loaded
increment(n) == n + 1

\* lines 181 to 197: the checks after the scan, and the answer with the
\* errors or the way on to line 200
create_account_checked(t, v, exists) ==
    With(create_errors(v, exists),
         LAMBDA errors :
             IF errors # <<>>
             THEN Return(t, render_template("account_form.html",
                                            flash_errors(errors), 0, None, <<>>))
             ELSE Goto(t, "create_account_new", v))

\* lines 159 to 178, and 218 for a GET: the form is read; without an email
\* of the right format the list is not read at all
create_account_validate(t) ==
    /\ At(t, "create_account")
    /\ IF threads[t].request.method # "POST"
       THEN threads' = Return(t, render_template("account_form.html", <<>>, 0,
                                                 None, <<>>))
       ELSE \E v \in {create_locals(threads[t].request.form)} :
                threads' = IF v.email # <<>> /\ validate_email(v.email)
                           THEN Goto(t, "create_account_scan",
                                     [values |-> v, i |-> 0])
                           ELSE create_account_checked(t, v, FALSE)
    /\ UNCHANGED <<heap, accounts, next_id, assigned, today, compensated>>

\* line 179, one element of the list, or the end of the scan with lines 181
\* to 197
create_account_scan(t) ==
    /\ At(t, "create_account_scan")
    /\ \E v \in {threads[t].local} :
           \E r \in {email_exists(heap, accounts, v.i, v.values.email)} :
               threads' = IF r.done
                          THEN create_account_checked(t, v.values, r.value)
                          ELSE Goto(t, "create_account_scan", [v EXCEPT !.i = @ + 1])
    /\ UNCHANGED <<heap, accounts, next_id, assigned, today, compensated>>

\* lines 200 to 210: the dict is built from next_id and the clock
create_account_new(t) ==
    /\ At(t, "create_account_new")
    /\ LET o == Allocate(heap)
           v == threads[t].local
       IN  /\ heap' = (o :> new_account(v, next_id, now(today))) @@ heap
           /\ threads' = Goto(t, "create_account_append",
                              [new_account |-> o, first_name |-> v.first_name,
                               last_name |-> v.last_name])
    /\ UNCHANGED <<accounts, next_id, assigned, today, compensated>>

\* line 212
create_account_append(t) ==
    /\ At(t, "create_account_append")
    /\ accounts' = Append(accounts, threads[t].local.new_account)
    /\ assigned' = assigned \cup {heap[threads[t].local.new_account].id}
    /\ threads' = Goto(t, "create_account_load", threads[t].local)
    /\ UNCHANGED <<heap, next_id, today, compensated>>

\* line 213, first half: next_id is loaded
create_account_load(t) ==
    /\ At(t, "create_account_load")
    /\ threads' = Goto(t, "create_account_store",
                       [new_account |-> threads[t].local.new_account,
                        first_name |-> threads[t].local.first_name,
                        last_name |-> threads[t].local.last_name,
                        loaded |-> next_id])
    /\ UNCHANGED <<heap, accounts, next_id, assigned, today, compensated>>

\* line 213, second half, the sum is stored; and lines 215 and 216
create_account_store(t) ==
    /\ At(t, "create_account_store")
    /\ next_id' = increment(threads[t].local.loaded)
    /\ threads' = Return(t, redirect("view_account",
           <<flash("Account created successfully for {first_name} {last_name}!",
                   <<threads[t].local.first_name, threads[t].local.last_name>>,
                   "success")>>,
           heap[threads[t].local.new_account].id))
    /\ heap' = Collect(heap, accounts, threads')
    /\ UNCHANGED <<accounts, assigned, today, compensated>>

(***************************************************************************)
(* edit_account                                                            *)
(***************************************************************************)
\* a scan that counts the edited account itself as a holder of the email
email_exists_anywhere(h, list, i, email, account_id) ==
    IF i >= Len(list) THEN [done |-> TRUE, value |-> FALSE]
    ELSE IF h[list[i + 1]].email = email THEN [done |-> TRUE, value |-> TRUE]
    ELSE [done |-> FALSE, value |-> FALSE]

\* any(acc['email'] == email and acc['id'] != account_id for acc in
\* accounts), one element further: done with the value of any(), or not
\* done
email_exists_elsewhere(h, list, i, email, account_id) ==
    IF i >= Len(list) THEN [done |-> TRUE, value |-> FALSE]
    ELSE IF h[list[i + 1]].email = email /\ h[list[i + 1]].id # account_id
    THEN [done |-> TRUE, value |-> TRUE]
    ELSE [done |-> FALSE, value |-> FALSE]

\* lines 230 to 236 and 261: the locals read from the form
edit_locals(form) ==
    With(validate_balance(Get(form, "balance", <<48>>)),
         LAMBDA checked :
             [first_name |-> strip(Get(form, "first_name", <<>>)),
              last_name |-> strip(Get(form, "last_name", <<>>)),
              email |-> lower(strip(Get(form, "email", <<>>))),
              account_type |-> Get(form, "account_type", <<>>),
              department |-> strip(Get(form, "department", <<>>)),
              status |-> Get(form, "status", <<>>),
              balance |-> checked[1],
              balance_error |-> checked[2]])

\* lines 239 to 263: the errors list, from the locals v and the value of
\* any() at line 249 if it was reached
edit_errors(v, exists) ==
        (IF v.first_name = <<>> THEN <<"First name is required">> ELSE <<>>)
        \o (IF v.last_name = <<>> THEN <<"Last name is required">> ELSE <<>>)
        \o (IF v.email = <<>> THEN <<"Email is required">>
            ELSE IF ~validate_email(v.email) THEN <<"Invalid email format">>
            ELSE IF exists THEN <<"Email already exists">>
            ELSE <<>>)
        \o (IF v.account_type = <<>> \/ v.account_type \notin {basic, standard, premium}
            THEN <<"Valid account type is required">> ELSE <<>>)
        \o (IF v.department = <<>> THEN <<"Department is required">> ELSE <<>>)
        \o (IF v.status = <<>> \/ v.status \notin {active, inactive}
            THEN <<"Valid status is required">> ELSE <<>>)
        \o (IF v.balance_error # "None" THEN <<v.balance_error>> ELSE <<>>)

\* an edit that also stamps the dict with the day of the edit
update_restamped(account, v) ==
    [account EXCEPT
        !.first_name = v.first_name, !.last_name = v.last_name,
        !.email = v.email, !.account_type = v.account_type,
        !.department = v.department, !.status = v.status,
        !.balance = v.balance, !.created_date = strftime(now(today))]

\* account.update({...})
update(account, v) ==
    [account EXCEPT
        !.first_name = v.first_name,
        !.last_name = v.last_name,
        !.email = v.email,
        !.account_type = v.account_type,
        !.department = v.department,
        !.status = v.status,
        !.balance = v.balance]

\* line 223, one element of the list, or the end of the scan; with lines
\* 224 to 228, and 287 for a GET
edit_account_find(t) ==
    /\ At(t, "edit_account")
    /\ \E r \in {find_account(heap, accounts, threads[t].local.i,
                              threads[t].request.account_id)} :
           threads' =
               IF ~r.done
               THEN Goto(t, "edit_account", [i |-> threads[t].local.i + 1])
               ELSE IF r.account = 0
               THEN Return(t, redirect("list_accounts",
                                       <<flash("Account not found", <<>>, "error")>>, 0))
               ELSE IF threads[t].request.method # "POST"
               THEN Return(t, render_template("account_form.html", <<>>,
                                              heap[r.account].id, None, <<>>))
               ELSE Goto(t, "edit_account_validate", [account |-> r.account])
    /\ UNCHANGED <<heap, accounts, next_id, assigned, today, compensated>>

\* lines 251 to 271: the checks after the scan, and the answer with the
\* errors or the way on to line 274
edit_account_checked(t, account, v, exists) ==
    With(edit_errors(v, exists),
         LAMBDA errors :
             IF errors # <<>>
             THEN Return(t, render_template("account_form.html",
                                            flash_errors(errors),
                                            heap[account].id, None, <<>>))
             ELSE Goto(t, "edit_account_update",
                       [account |-> account, values |-> v]))

\* lines 230 to 248: the form is read; without an email of the right
\* format the list is not read at all
edit_account_validate(t) ==
    /\ At(t, "edit_account_validate")
    /\ \E v \in {edit_locals(threads[t].request.form)} :
           threads' = IF v.email # <<>> /\ validate_email(v.email)
                      THEN Goto(t, "edit_account_scan",
                                [account |-> threads[t].local.account,
                                 values |-> v, i |-> 0])
                      ELSE edit_account_checked(t, threads[t].local.account, v, FALSE)
    /\ heap' = Collect(heap, accounts, threads')
    /\ UNCHANGED <<accounts, next_id, assigned, today, compensated>>

\* line 249, one element of the list, or the end of the scan with lines 251
\* to 271
edit_account_scan(t) ==
    /\ At(t, "edit_account_scan")
    /\ \E v \in {threads[t].local} :
           \E r \in {email_exists_elsewhere(heap, accounts, v.i, v.values.email,
                                            threads[t].request.account_id)} :
               threads' = IF r.done
                          THEN edit_account_checked(t, v.account, v.values, r.value)
                          ELSE Goto(t, "edit_account_scan", [v EXCEPT !.i = @ + 1])
    /\ heap' = Collect(heap, accounts, threads')
    /\ UNCHANGED <<accounts, next_id, assigned, today, compensated>>

\* lines 274 to 285: the dict found at line 223 is updated, in the list or
\* not
edit_account_update(t) ==
    /\ At(t, "edit_account_update")
    /\ LET account == threads[t].local.account
           v == threads[t].local.values
       IN  /\ threads' = Return(t, redirect("view_account",
                  <<flash("Account updated successfully for {first_name} {last_name}!",
                          <<v.first_name, v.last_name>>, "success")>>,
                  threads[t].request.account_id))
           /\ heap' = Collect([heap EXCEPT ![account] = update(@, v)],
                              accounts, threads')
    /\ UNCHANGED <<accounts, next_id, assigned, today, compensated>>

(***************************************************************************)
(* delete_account                                                          *)
(***************************************************************************)
\* dict == dict
DictEq(a, b) ==
    /\ a.id = b.id
    /\ a.first_name = b.first_name
    /\ a.last_name = b.last_name
    /\ a.email = b.email
    /\ a.account_type = b.account_type
    /\ a.department = b.department
    /\ a.status = b.status
    /\ a.created_date = b.created_date
    /\ FloatEq(a.balance, b.balance)

\* the position list.remove(x) removes: that of the first element that is x
\* or equals x; 0 when there is none and remove raises ValueError
index(h, list, x) ==
    LET Found(k) == list[k] = x \/ DictEq(h[list[k]], h[x])
    IN  IF \E k \in 1..Len(list) : Found(k)
        THEN CHOOSE k \in 1..Len(list) : Found(k) /\ \A j \in 1..(k - 1) : ~Found(j)
        ELSE 0

\* the list without its element at position i
remove(list, i) == SubSeq(list, 1, i - 1) \o SubSeq(list, i + 1, Len(list))

\* line 292, one element of the list, or the end of the scan; with lines
\* 293 to 295
delete_account_find(t) ==
    /\ At(t, "delete_account")
    /\ \E r \in {find_account(heap, accounts, threads[t].local.i,
                              threads[t].request.account_id)} :
           threads' =
               IF ~r.done
               THEN Goto(t, "delete_account", [i |-> threads[t].local.i + 1])
               ELSE IF r.account = 0
               THEN Return(t, redirect("list_accounts",
                                       <<flash("Account not found", <<>>, "error")>>, 0))
               ELSE Goto(t, "delete_account_name", [account |-> r.account])
    /\ UNCHANGED <<heap, accounts, next_id, assigned, today, compensated>>

\* line 297
delete_account_name(t) ==
    /\ At(t, "delete_account_name")
    /\ LET account == threads[t].local.account
       IN  threads' = Goto(t, "delete_account_remove",
                           [account |-> account,
                            account_name |-> <<heap[account].first_name,
                                               heap[account].last_name>>])
    /\ UNCHANGED <<heap, accounts, next_id, assigned, today, compensated>>

\* lines 298 to 301; a ValueError of remove is answered by internal_error
delete_account_remove(t) ==
    /\ At(t, "delete_account_remove")
    /\ \E i \in {index(heap, accounts, threads[t].local.account)} :
           IF i = 0
           THEN /\ accounts' = accounts
                /\ threads' = Return(t, internal_error)
           ELSE /\ accounts' = remove(accounts, i)
                /\ threads' = Return(t, redirect("list_accounts",
                       <<flash("Account for {account_name} has been deleted successfully",
                               threads[t].local.account_name, "success")>>,
                       0))
    /\ heap' = Collect(heap, accounts', threads')
    /\ UNCHANGED <<next_id, assigned, today, compensated>>

(***************************************************************************)
(* The environment: what clients submit, and the clock                     *)
(***************************************************************************)
MaxId == 5

MaxDay == 2

Post(endpoint, account_id, form) ==
    [endpoint |-> endpoint, method |-> "POST", account_id |-> account_id, form |-> form]

GetPage(endpoint, account_id) ==
    [endpoint |-> endpoint, method |-> "GET", account_id |-> account_id, form |-> <<>>]

\* raw field values
\* ' Al '
RawAl == <<32, 65, 108, 32>>

RawRoe == <<82, 111, 101>>

RawIT == <<73, 84>>

\* ' John.Doe@Example.COM '
RawJohn == <<32, 74, 111, 104, 110, 46, 68, 111, 101, 64, 69, 120, 97, 109, 112, 108, 101, 46, 67, 79, 77, 32>>

\* 'sarah.j@example.com'
RawSarah == <<115, 97, 114, 97, 104, 46, 106, 64, 101, 120, 97, 109, 112, 108, 101, 46, 99, 111, 109>>

\* 'C@d.io' and a tab
RawNew == <<67, 64, 100, 46, 105, 111, 9>>

\* KELVIN SIGN, '@D.io' and a no-break space
RawKelvin == <<8490, 64, 68, 46, 105, 111, 160>>

\* 'a@b'
RawBad == <<97, 64, 98>>

FormA ==
    [first_name |-> RawAl, last_name |-> RawRoe, email |-> RawSarah,
     account_type |-> basic, department |-> RawIT, status |-> active,
     balance |-> <<49, 48, 48, 46, 53, 53, 53>>]                                       \* '100.555'

FormB ==
    [first_name |-> RawAl, last_name |-> RawRoe, email |-> RawNew,
     account_type |-> premium, department |-> RawIT, status |-> inactive,
     balance |-> <<45, 48>>]                                            \* '-0'

FormC ==
    [first_name |-> RawAl, last_name |-> RawRoe, email |-> RawJohn,
     account_type |-> standard, department |-> RawIT, status |-> inactive,
     balance |-> <<110, 97, 110>>]                                           \* 'nan'

\* the balance is ARABIC-INDIC DIGIT THREE, '_', ARABIC-INDIC DIGIT FIVE,
\* '.5e-1' and an ideographic space: 3.55
FormK ==
    [first_name |-> RawAl, last_name |-> RawRoe, email |-> RawKelvin,
     account_type |-> basic, department |-> RawIT, status |-> active,
     balance |-> <<1635, 95, 1637, 46, 53, 101, 45, 49, 12288>>]

Forms ==
    {FormA, FormB, FormC,
     [FormK EXCEPT !.department = <<160>>],
     [FormA EXCEPT !.email = RawBad],
     [FormA EXCEPT !.status = <<115, 117, 115, 112, 101, 110, 100, 101, 100>>],
     [FormB EXCEPT !.balance = <<43, 73, 110, 102, 105, 110, 105, 116, 121>>],
     [FormB EXCEPT !.balance = <<45, 105, 110, 102>>],
     [FormB EXCEPT !.balance = <<97, 98, 99>>],
     [FormB EXCEPT !.balance = <<45, 53>>, !.first_name = <<32>>],
     [FormB EXCEPT !.balance = <<50, 48, 48, 48, 48, 48, 48>>, !.account_type = <<103, 111, 108, 100>>],
     <<>>}

\* the ids edited: two seed accounts and an id that is never assigned
EditIds == {1, 2, MaxId + 1}

\* the ids deleted: the seed accounts, the first id a create assigns and an
\* id that is never assigned
DeleteIds == {1, 2, 3, 4, MaxId + 1}

Requests ==
    {Post("create_account", 0, f) : f \in Forms}
    \cup {GetPage("create_account", 0), GetPage("dashboard", 0)}
    \cup {Post("edit_account", id, f) : id \in EditIds, f \in Forms}
    \cup {GetPage("edit_account", id) : id \in EditIds}
    \cup {Post("delete_account", id, <<>>) : id \in DeleteIds}

\* a client sends a request and the server starts a thread for it, one of
\* workers threads, with no element of the list read yet; creates stop when
\* the counter has passed max_id
Submit(reqs, max_id, workers) ==
    /\ \E t \in 1..workers, r \in reqs :
          /\ At(t, "idle")
          /\ \A u \in 1..(t - 1) : ~At(u, "idle")
          /\ (r.endpoint = "create_account" /\ r.method = "POST") => next_id <= max_id
          /\ threads' = [threads EXCEPT ![t] =
                            [pc |-> r.endpoint, request |-> r,
                             local |-> [i |-> 0], response |-> None]]
    /\ UNCHANGED <<heap, accounts, next_id, assigned, today, compensated>>

\* the client takes the response and the thread ends
Deliver(t) ==
    /\ At(t, "done")
    /\ threads' = [threads EXCEPT ![t] = Idle]
    /\ UNCHANGED <<heap, accounts, next_id, assigned, today, compensated>>

\* midnight passes
Tick ==
    /\ today < MaxDay
    /\ today' = today + 1
    /\ UNCHANGED <<heap, accounts, next_id, assigned, threads, compensated>>

Init ==
    /\ heap = SeedAccounts
    /\ accounts = [i \in 1..Len(SeedAccounts) |-> i]
    /\ next_id = InitialNextId(SeedAccounts)
    /\ assigned = {SeedAccounts[i].id : i \in 1..Len(SeedAccounts)}
    /\ today = 1
    /\ threads = [t \in Threads |-> Idle]
    /\ compensated \in BOOLEAN

\* a step of the handler that thread t runs
Handler(t) ==
    \/ dashboard_total_accounts(t)
    \/ dashboard_active_accounts(t)
    \/ dashboard_total_balance(t)
    \/ dashboard_recent_accounts(t)
    \/ dashboard_render(t)
    \/ create_account_validate(t)
    \/ create_account_scan(t)
    \/ create_account_new(t)
    \/ create_account_append(t)
    \/ create_account_load(t)
    \/ create_account_store(t)
    \/ edit_account_find(t)
    \/ edit_account_validate(t)
    \/ edit_account_scan(t)
    \/ edit_account_update(t)
    \/ delete_account_find(t)
    \/ delete_account_name(t)
    \/ delete_account_remove(t)

\* requests served one at a time
Next ==
    \/ Submit(Requests, MaxId, 1)
    \/ \E t \in Threads : Handler(t)
    \/ \E t \in Threads : Deliver(t)
    \/ Tick

Spec == Init /\ [][Next]_vars

(***************************************************************************)
(* Threaded runs: app.run() as it is, every request in a thread of its     *)
(* own.  A few requests that meet on the same data.                        *)
(***************************************************************************)
MaxIdThreaded == 4

\* FormB with another account type, for the edits
FormE == [FormB EXCEPT !.account_type = basic]

RequestsThreaded ==
    {Post("create_account", 0, FormB),
     Post("create_account", 0, [FormB EXCEPT !.balance = <<49, 69, 52, 48, 48>>]),
     Post("edit_account", 1, FormE),
     Post("edit_account", 4, FormE),
     Post("delete_account", 2, <<>>),
     Post("delete_account", 4, <<>>),
     GetPage("dashboard", 0)}

NextThreaded ==
    \/ Submit(RequestsThreaded, MaxIdThreaded, MaxThreads)
    \/ \E t \in Threads : Handler(t)
    \/ \E t \in Threads : Deliver(t)
    \/ Tick

SpecThreaded == Init /\ [][NextThreaded]_vars

(***************************************************************************)
(* Vocabulary of the properties                                            *)
(***************************************************************************)
\* the account dicts of the list, in order
Store == Dicts(heap, accounts)

Range(list) == {list[i] : i \in 1..Len(list)}

Ids(accs) == {accs[i].id : i \in 1..Len(accs)}

HasFlash(resp, message) ==
    \E i \in 1..Len(resp.flashes) : resp.flashes[i].message = message

\* thread t executes the statement at label
Steps(t, label) == At(t, label) /\ threads'[t] # threads[t]

\* thread t has answered a request to this endpoint
Answered(t, endpoint, method) ==
    /\ At(t, "done")
    /\ threads[t].request.endpoint = endpoint
    /\ threads[t].request.method = method

\* thread t takes a step of its handler
Runs(t) == threads[t].pc \notin {"idle", "done"} /\ threads'[t] # threads[t]

IsPost(t, endpoint) ==
    /\ threads[t].request # None
    /\ threads[t].request.endpoint = endpoint
    /\ threads[t].request.method = "POST"

\* the statements that validate a submission
Validation ==
    {"create_account", "create_account_scan",
     "edit_account_validate", "edit_account_scan"}

\* thread t takes the step that ends the validation of the form it got:
\* it answers with the errors or goes on to the writes
Decides(t, endpoint) ==
    /\ IsPost(t, endpoint)
    /\ threads[t].pc \in Validation
    /\ threads'[t].pc \notin Validation

\* the list, its dicts and the counter stay as they are
StoreUnchanged ==
    /\ accounts' = accounts
    /\ Dicts(heap', accounts') = Store
    /\ next_id' = next_id
    /\ assigned' = assigned

\* the account of the list with this id
AccountOf(accs, id) == accs[CHOOSE i \in 1..Len(accs) : accs[i].id = id]

\* the text a form submits for a field, as the handlers read it
Clean(form, key) == strip(Get(form, key, <<>>))

CleanEmail(form) == lower(Clean(form, "email"))

\* C1: every successful create assigns an id strictly greater than every id
\* assigned before it (seed ids included), when requests are executed one
\* after the other; the ids in the list were all assigned.
C1_FreshIdsIncrease ==
    [][/\ Ids(Store) \subseteq assigned
       /\ \A t \in Threads :
             Steps(t, "create_account_append") =>
                 LET id == heap[threads[t].local.new_account].id
                 IN  /\ \A old \in assigned : id > old
                     /\ id \in Ids(Dicts(heap', accounts'))]_vars

\* a create that got id 5 while the account with id 4, the highest id
\* before it, had been deleted
C1_Witness ==
    \E t \in Threads :
        /\ Answered(t, "create_account", "POST")
        /\ threads[t].response.target = "view_account"
        /\ threads[t].response.account_id = 5
        /\ 5 \in Ids(Store)
        /\ 4 \notin Ids(Store)
        /\ 4 \in assigned

\* 0 <= b <= 1000000
InRange(b) == b.kind = "fin" /\ ~LessThanZero(b) /\ ~GreaterThanMillion(b)

\* what the properties take a valid field to be
Blank(text) == \A i \in 1..Len(text) : text[i] \in Whitespace

BalanceAccepted(form) ==
    LET v == float(Get(form, "balance", <<48>>))
    IN  v # ValueError /\ InRange(v)

OtherFieldsValid(form, is_edit) ==
    /\ ~Blank(Get(form, "first_name", <<>>))
    /\ ~Blank(Get(form, "last_name", <<>>))
    /\ ~Blank(Get(form, "department", <<>>))
    /\ Get(form, "account_type", <<>>) \in {basic, standard, premium}
    /\ is_edit => Get(form, "status", <<>>) \in {active, inactive}
    /\ BalanceAccepted(form)

UniqueEmails(accs) ==
    \A i, j \in 1..Len(accs) : i # j => accs[i].email # accs[j].email

\* the email of the form is one no account of accs holds
EmailFree(form, accs) ==
    /\ ~Blank(Get(form, "email", <<>>))
    /\ validate_email(CleanEmail(form))
    /\ \A i \in 1..Len(accs) : accs[i].email # CleanEmail(form)

\* C2: with requests served one after the other, no two accounts of the
\* list have the same email, before and after every step; and a create or
\* an edit that submits a well-formed email no account of the list holds
\* (any more), with all other fields valid, passes the checks and goes on
\* to store the email.
C2_EmailsUnique ==
    [][/\ UniqueEmails(Store)
       /\ UniqueEmails(Dicts(heap', accounts'))
       /\ \A t \in Threads :
             /\ (/\ Decides(t, "create_account")
                 /\ EmailFree(threads[t].request.form, Store)
                 /\ OtherFieldsValid(threads[t].request.form, FALSE)) =>
                    threads'[t].pc = "create_account_new"
             /\ (/\ Decides(t, "edit_account")
                 /\ EmailFree(threads[t].request.form, Store)
                 /\ OtherFieldsValid(threads[t].request.form, TRUE)) =>
                    threads'[t].pc = "edit_account_update"
             /\ Steps(t, "create_account_new") =>
                    heap'[threads'[t].local.new_account].email =
                        CleanEmail(threads[t].request.form)]_vars

\* a create has succeeded with the email seed account 2 had, after account
\* 2 was deleted
C2_Witness ==
    \E t \in Threads :
        /\ Answered(t, "create_account", "POST")
        /\ threads[t].response.target = "view_account"
        /\ 2 \in assigned
        /\ 2 \notin Ids(Store)
        /\ \E i \in 1..Len(Store) :
              /\ Store[i].id = threads[t].response.account_id
              /\ Store[i].id > 3
              /\ Store[i].email = SeedAccounts[2].email

\* C3: every stored balance b satisfies 0 <= b <= 1000000.
C3_BalanceInRange ==
    \A i \in 1..Len(accounts) : InRange(heap[accounts[i]].balance)

\* C4: with requests served one after the other, no step of an edit
\* request for account A, from the search for A to the answer, changes the
\* list, the id counter, a field of another account, or A's id or
\* created_date; and no step of any request changes the id or the
\* created_date of a dict once it is built.
C4_EditFrame ==
    [][/\ \A t \in Threads :
             (Runs(t) /\ IsPost(t, "edit_account")) =>
                 /\ accounts' = accounts
                 /\ next_id' = next_id
                 /\ \A o \in Range(accounts) :
                       /\ o \in DOMAIN heap'
                       /\ DOMAIN heap'[o] = DOMAIN heap[o]
                       /\ heap'[o].id = heap[o].id
                       /\ heap'[o].created_date = heap[o].created_date
                       /\ heap[o].id # threads[t].request.account_id =>
                              heap'[o] = heap[o]
       /\ \A o \in DOMAIN heap \cap DOMAIN heap' :
             /\ heap'[o].id = heap[o].id
             /\ heap'[o].created_date = heap[o].created_date]_vars

\* seed account 2 after a successful edit: new name, email, type,
\* department, status and balance, the id and created_date of the seed,
\* and the two other seed accounts as they were
C4_Witness ==
    \E t \in Threads :
        /\ Answered(t, "edit_account", "POST")
        /\ threads[t].response.target = "view_account"
        /\ threads[t].request.account_id = 2
        /\ Len(Store) = 3
        /\ Store[1] = SeedAccounts[1]
        /\ Store[3] = SeedAccounts[3]
        /\ Store[2].id = 2
        /\ Store[2].created_date = SeedAccounts[2].created_date
        /\ Store[2].first_name # SeedAccounts[2].first_name
        /\ Store[2].last_name # SeedAccounts[2].last_name
        /\ Store[2].email # SeedAccounts[2].email
        /\ Store[2].account_type # SeedAccounts[2].account_type
        /\ Store[2].department # SeedAccounts[2].department
        /\ Store[2].status # SeedAccounts[2].status
        /\ Store[2].balance # SeedAccounts[2].balance

\* another account of accs than the one with account_id holds the email of
\* the form
HeldByAnother(form, accs, account_id) ==
    \E i \in 1..Len(accs) :
        accs[i].id # account_id /\ accs[i].email = CleanEmail(form)

\* C5: with requests served one after the other, an edit of an account A
\* of the list that submits the email of another account B of the list
\* changes nothing in any of its steps and is answered with the form and
\* "Email already exists"; an edit of A that submits A's own current email
\* with all other fields valid is answered with the redirect to A's page,
\* and A then holds the values submitted.
C5_EditEmailUniqueness ==
    [][\A t \in Threads :
          (/\ Runs(t)
           /\ IsPost(t, "edit_account")
           /\ threads[t].request.account_id \in Ids(Store)) =>
              LET form == threads[t].request.form
                  id == threads[t].request.account_id
                  after == Dicts(heap', accounts')
              IN  /\ HeldByAnother(form, Store, id) =>
                         /\ StoreUnchanged
                         /\ threads'[t].pc = "done" =>
                                /\ threads'[t].response.kind = "render"
                                /\ HasFlash(threads'[t].response,
                                            "Email already exists")
                  /\ (/\ AccountOf(Store, id).email = CleanEmail(form)
                      /\ OtherFieldsValid(form, TRUE)
                      /\ threads'[t].pc = "done") =>
                         /\ threads'[t].response.kind = "redirect"
                         /\ threads'[t].response.target = "view_account"
                         /\ threads'[t].response.account_id = id
                         /\ AccountOf(after, id).email = CleanEmail(form)
                         /\ AccountOf(after, id).first_name = Clean(form, "first_name")
                         /\ AccountOf(after, id).status = Get(form, "status", <<>>)]_vars

\* an edit of an account was refused because another account of the list
\* holds the email submitted
C5_Witness ==
    \E t \in Threads :
        /\ Answered(t, "edit_account", "POST")
        /\ threads[t].request.account_id \in Ids(Store)
        /\ HeldByAnother(threads[t].request.form, Store,
                         threads[t].request.account_id)
        /\ threads[t].response.kind = "render"
        /\ HasFlash(threads[t].response, "Email already exists")

\* C6: with requests served one after the other, no step of a delete for
\* an id no account of the list has changes the list, a dict of it or the
\* id counter, and the request is answered with the not-found notice; and
\* a delete that removes an account leaves no account with that id, so
\* that a second delete of the id is such a request.
C6_DeleteAbsent ==
    [][\A t \in Threads :
          /\ (/\ Runs(t)
              /\ IsPost(t, "delete_account")
              /\ threads[t].request.account_id \notin Ids(Store)) =>
                 /\ StoreUnchanged
                 /\ threads'[t].pc \in {"delete_account", "done"}
                 /\ threads'[t].pc = "done" =>
                        /\ threads'[t].response.kind = "redirect"
                        /\ threads'[t].response.flashes =
                               <<flash("Account not found", <<>>, "error")>>
          /\ (Steps(t, "delete_account_remove") /\ accounts' # accounts) =>
                 threads[t].request.account_id \notin Ids(Dicts(heap', accounts'))]_vars

\* the second delete of seed account 2: not found, and the two other seed
\* accounts are still there
C6_Witness ==
    \E t \in Threads :
        /\ Answered(t, "delete_account", "POST")
        /\ threads[t].request.account_id = 2
        /\ 2 \in assigned
        /\ Store = <<SeedAccounts[1], SeedAccounts[3]>>
        /\ threads[t].response.flashes = <<flash("Account not found", <<>>, "error")>>

\* the checks on a submission, stated on the raw form
EmailCheckFails(form, accs, is_edit, account_id) ==
    \/ Blank(Get(form, "email", <<>>))
    \/ ~validate_email(CleanEmail(form))
    \/ \E i \in 1..Len(accs) :
          /\ accs[i].email = CleanEmail(form)
          /\ is_edit => accs[i].id # account_id

BalanceCheckFails(form) ==
    LET v == float(Get(form, "balance", <<48>>))
    IN  \/ v = ValueError
        \/ v.kind = "inf"
        \/ v.kind = "fin" /\ (LessThanZero(v) \/ GreaterThanMillion(v))

SomeCheckFails(form, accs, is_edit, account_id) ==
    \/ Blank(Get(form, "first_name", <<>>))
    \/ Blank(Get(form, "last_name", <<>>))
    \/ EmailCheckFails(form, accs, is_edit, account_id)
    \/ Get(form, "account_type", <<>>) \notin {basic, standard, premium}
    \/ Blank(Get(form, "department", <<>>))
    \/ is_edit /\ Get(form, "status", <<>>) \notin {active, inactive}
    \/ BalanceCheckFails(form)

\* C7: with requests served one after the other, a create POST, or an edit
\* POST for an account of the list, for which a check fails never leaves
\* the statements that search and validate but to answer with the form and
\* the errors, and none of its steps changes the list, a dict of it, the id
\* counter or the ids assigned.
C7_RejectedChangesNothing ==
    [][\A t \in Threads :
          /\ (/\ Runs(t)
              /\ IsPost(t, "create_account")
              /\ threads[t].pc \in Validation
              /\ SomeCheckFails(threads[t].request.form, Store, FALSE, 0)) =>
                 /\ StoreUnchanged
                 /\ threads'[t].pc \in Validation \cup {"done"}
                 /\ threads'[t].pc = "done" =>
                        /\ threads'[t].response.kind = "render"
                        /\ threads'[t].response.flashes # <<>>
          /\ (/\ Runs(t)
              /\ IsPost(t, "edit_account")
              /\ threads[t].request.account_id \in Ids(Store)
              /\ threads[t].pc \in Validation \cup {"edit_account"}
              /\ SomeCheckFails(threads[t].request.form, Store, TRUE,
                                threads[t].request.account_id)) =>
                 /\ StoreUnchanged
                 /\ threads'[t].pc \in Validation \cup {"edit_account", "done"}
                 /\ threads'[t].pc = "done" =>
                        /\ threads'[t].response.kind = "render"
                        /\ threads'[t].response.flashes # <<>>]_vars

\* a create was refused after another create had succeeded, and the counter
\* still stands right after the id of the earlier one
C7_Witness ==
    \E t \in Threads :
        /\ Answered(t, "create_account", "POST")
        /\ SomeCheckFails(threads[t].request.form, Store, FALSE, 0)
        /\ threads[t].response.kind = "render"
        /\ Len(threads[t].response.flashes) >= 1
        /\ next_id = 5
        /\ 4 \in Ids(Store)
        /\ Len(accounts) = 4

\* the exact sum n * 2^e of the balances so far, as <<n, e>>, and a
\* balance b that is finite and not negative
ExactAdd(acc, b) ==
    IF b.m = <<>> THEN acc
    ELSE IF acc[1] = <<>> THEN <<b.m, b.e>>
    ELSE IF b.e < acc[2] THEN <<BAdd(BShl(acc[1], acc[2] - b.e), b.m), b.e>>
    ELSE <<BAdd(acc[1], BShl(b.m, b.e - acc[2])), acc[2]>>

\* the sum of the balances of accs in exact arithmetic, as <<n, e>>
ExactSum(accs) ==
    Fold(LAMBDA acc, i : ExactAdd(acc, accs[i].balance), 1, Len(accs), <<<<>>, 0>>)

\* | a - b |
BDist(a, b) == IF BCmp(a, b) >= 0 THEN BSub(a, b) ELSE BSub(b, a)

\* the float total is the exact sum <<n, e>> of k floats that are not
\* negative up to the rounding of k additions:
\* | total - sum | <= k * 2^-53 * sum
WithinRounding(total, exact, k) ==
    /\ total.kind = "fin"
    /\ total.m # <<>> => ~total.neg
    /\ IF total.e >= exact[2]
       THEN BCmp(BShl(BDist(BShl(total.m, total.e - exact[2]), exact[1]), 53),
                 BMulSmall(exact[1], k)) <= 0
       ELSE BCmp(BShl(BDist(total.m, BShl(exact[1], exact[2] - total.e)), 53),
                 BMulSmall(BShl(exact[1], exact[2] - total.e), k)) <= 0

\* the total is the sum of the balances as floating-point addition gives
\* it: nan when a balance is nan
SumOfBalances(accs, total) ==
    IF \E i \in 1..Len(accs) : accs[i].balance.kind = "nan"
    THEN total.kind = "nan"
    ELSE WithinRounding(total, ExactSum(accs), Len(accs))

StatsCorrect(accs, stats) ==
    LET n == Len(accs)
    IN  /\ stats.total_accounts = n
        /\ stats.active_accounts = Cardinality({i \in 1..n : accs[i].status = active})
        /\ stats.inactive_accounts = n - stats.active_accounts
        /\ stats.inactive_accounts = Cardinality({i \in 1..n : accs[i].status = inactive})
        /\ SumOfBalances(accs, stats.total_balance)
        /\ n = 0 => stats.average_balance = Zero(FALSE)
        /\ n > 0 => stats.average_balance = Divide(stats.total_balance, n)

\* C10: with requests served one after the other, no step of a dashboard
\* request changes the list, a dict of it or the id counter, and the
\* statistics it hands out are the number of accounts, the numbers of
\* active and of inactive accounts, the floating-point sum of the balances
\* and that sum divided by the number of accounts (0 for the empty list).
C10_StatsCorrect ==
    [][\A t \in Threads :
          (/\ Runs(t)
           /\ threads[t].request.endpoint = "dashboard") =>
              /\ StoreUnchanged
              /\ threads'[t].pc = "done" =>
                     StatsCorrect(Store, threads'[t].response.stats)]_vars

\* the dashboard of the empty list, after the three seed accounts were
\* deleted: all numbers 0
C10_Witness ==
    \E t \in Threads :
        /\ Answered(t, "dashboard", "GET")
        /\ accounts = <<>>
        /\ {1, 2, 3} \subseteq assigned
        /\ threads[t].response.stats.total_accounts = 0
        /\ threads[t].response.stats.average_balance = Zero(FALSE)
(***************************************************************************)
(* Validation runs: a failing and a passing value for every field, in      *)
(* every combination; one request at a time                                *)
(***************************************************************************)
MaxIdValidation == 4

\* 'abc', '-1_0.0', ' 1E7 ', '0.125'
BalancesValidation ==
    { <<97, 98, 99>>, <<45, 49, 95, 48, 46, 48>>, <<32, 49, 69, 55, 32>>, <<48, 46, 49, 50, 53>>}

\* blank values: a no-break space for the first name, nothing for the last
\* name, a tab and an ideographic space for the email, a form feed and a
\* carriage return for the department
CreateFormsValidation ==
    [first_name : {<<160>>, RawAl},
     last_name : {<<>>, RawRoe},
     email : {<<9, 12288>>, RawBad, RawJohn, RawKelvin},
     account_type : { <<103, 111, 108, 100>>, basic},
     department : {<<12, 13>>, RawIT},
     balance : BalancesValidation]

EditFormsValidation ==
    [first_name : {<<160>>, RawAl},
     last_name : {<<>>, RawRoe},
     email : {<<9, 12288>>, RawBad, RawJohn, RawKelvin},
     account_type : {<<>>, basic},
     department : {<<12, 13>>, RawIT},
     status : { <<65, 99, 116, 105, 118, 101>>, inactive},
     balance : BalancesValidation]

RequestsValidation ==
    {Post("create_account", 0, f) : f \in CreateFormsValidation}
    \cup {Post("edit_account", id, f) : id \in {2}, f \in EditFormsValidation}
    \cup {Post("delete_account", 1, <<>>), GetPage("dashboard", 0)}

NextValidation ==
    \/ Submit(RequestsValidation, MaxIdValidation, 1)
    \/ \E t \in Threads : Handler(t)
    \/ \E t \in Threads : Deliver(t)
    \/ Tick

SpecValidation == Init /\ [][NextValidation]_vars

\* the messages a submission must draw, check by check in the fixed order
EmailMessage(form) ==
    IF Blank(Get(form, "email", <<>>)) THEN "Email is required"
    ELSE IF ~validate_email(CleanEmail(form)) THEN "Invalid email format"
    ELSE "Email already exists"

BalanceMessage(form) ==
    LET v == float(Get(form, "balance", <<48>>))
    IN  IF v = ValueError THEN "Invalid balance format"
        ELSE IF LessThanZero(v) THEN "Balance cannot be negative"
        ELSE "Balance too large"

Checks(form, accs, is_edit, account_id) ==
    << [fails |-> Blank(Get(form, "first_name", <<>>)),
        message |-> "First name is required"],
       [fails |-> Blank(Get(form, "last_name", <<>>)),
        message |-> "Last name is required"],
       [fails |-> EmailCheckFails(form, accs, is_edit, account_id),
        message |-> EmailMessage(form)],
       [fails |-> Get(form, "account_type", <<>>) \notin {basic, standard, premium},
        message |-> "Valid account type is required"],
       [fails |-> Blank(Get(form, "department", <<>>)),
        message |-> "Department is required"],
       [fails |-> is_edit /\ Get(form, "status", <<>>) \notin {active, inactive},
        message |-> "Valid status is required"],
       [fails |-> BalanceCheckFails(form),
        message |-> BalanceMessage(form)] >>

ExpectedMessages(form, accs, is_edit, account_id) ==
    LET Failing(c) == c.fails
        failed == SelectSeq(Checks(form, accs, is_edit, account_id), Failing)
    IN  [i \in 1..Len(failed) |-> failed[i].message]

ErrorMessages(resp) ==
    LET IsError(f) == f.category = "error"
        errs == SelectSeq(resp.flashes, IsError)
    IN  [i \in 1..Len(errs) |-> errs[i].message]

\* what the step that ends the validation must do with the messages
\* expected
Reported(t, expected) ==
    IF expected = <<>> THEN threads'[t].pc # "done"
    ELSE /\ threads'[t].pc = "done"
         /\ ErrorMessages(threads'[t].response) = expected

\* C8: the errors reported for a create or edit submission are one message
\* per failing check and none for a passing check, in the order first name,
\* last name, email, account type, department, status (edit only), balance;
\* a submission is answered with errors exactly when a check fails.
C8_AllErrorsInOrder ==
    [][\A t \in Threads :
          /\ Decides(t, "create_account") =>
                 Reported(t, ExpectedMessages(threads[t].request.form, Store, FALSE, 0))
          /\ Decides(t, "edit_account") =>
                 Reported(t, ExpectedMessages(threads[t].request.form, Store, TRUE,
                                              threads[t].request.account_id))]_vars

\* an edit in which every one of the seven checks failed
C8_Witness ==
    \E t \in Threads :
        /\ Answered(t, "edit_account", "POST")
        /\ threads[t].request.account_id \in Ids(Store)
        /\ ErrorMessages(threads[t].response) =
              <<"First name is required", "Last name is required",
                "Invalid email format", "Valid account type is required",
                "Department is required", "Valid status is required",
                "Balance too large">>

(***************************************************************************)
(* Dashboard runs: creates of valid accounts with six different emails,    *)
(* one request at a time                                                   *)
(***************************************************************************)
MaxIdRecent == 9

RecentEmails ==
    { <<97, 64, 120, 46, 105, 111>>, <<98, 64, 120, 46, 105, 111>>, <<99, 64, 120, 46, 105, 111>>, <<100, 64, 120, 46, 105, 111>>, <<101, 64, 120, 46, 105, 111>>, <<102, 64, 120, 46, 105, 111>>}

RequestsRecent ==
    {Post("create_account", 0, [FormB EXCEPT !.email = e]) : e \in RecentEmails}
    \cup {Post("edit_account", 1, FormB), Post("delete_account", 1, <<>>),
          GetPage("dashboard", 0)}

NextRecent ==
    \/ Submit(RequestsRecent, MaxIdRecent, 1)
    \/ \E t \in Threads : Handler(t)
    \/ \E t \in Threads : Deliver(t)

SpecRecent == Init /\ [][NextRecent]_vars

\* C9: the dashboard's recent list holds min(5, n) accounts of the list,
\* and no account left out of it was created after (has a greater id than)
\* one that is in it.
C9_RecentAreNewest ==
    \A t \in Threads :
        Answered(t, "dashboard", "GET") =>
            LET recent == threads[t].response.recent_accounts
                n == Len(Store)
            IN  /\ Len(recent) = IF n < 5 THEN n ELSE 5
                /\ \A i \in 1..Len(recent) : \E j \in 1..n : Store[j] = recent[i]
                /\ \A j \in 1..n :
                      (\A i \in 1..Len(recent) : recent[i].id # Store[j].id) =>
                          \A i \in 1..Len(recent) : Store[j].id < recent[i].id
=============================================================================
